---- MODULE Spec2Model ----
(***************************************************************************)
(* Session transport and handshake extractor of the Computer class         *)
(* (src/lib/computer.ts, the WebSocket + MCP variant, lines 344-746).      *)
(*                                                                         *)
(* One Computer instance is modelled.  Every WebSocket the instance        *)
(* creates is a socket 1..MaxSockets with the ready state of the ws        *)
(* library; the four handlers connectWS() attaches to it are the socket    *)
(* actions.  A call of execute() is a call 1..MaxCalls whose position is   *)
(* the await it is suspended at.  Promise continuations are separate       *)
(* steps that run before any further I/O event (microtask priority).       *)
(*                                                                         *)
(* Spec is the session with a working Logging Sink, SinkSpec the session   *)
(* with a sink whose file may stop being writable, and LoopSpec the        *)
(* orchestration loop of src/lib/anthropic.ts with the Action Model of     *)
(* src/lib/schemas, seen from outside the Computer it drives.  DriveSpec   *)
(* is that loop together with the session it calls, Loop2Spec the loop of  *)
(* the getMetadata() variant.  PureSpec and UtilSpec apply the pure        *)
(* functions (validation, JSON text, getMcpUrl, makeToolResult) and the    *)
(* HTTP variant's execute() to sampled inputs; SideSpec, MetaSpec and      *)
(* ShareSpec hold the side-channel operations, the bounded wait for        *)
(* metadata and the options.tools of two instances.                        *)
(***************************************************************************)
EXTENDS Naturals, Integers, Sequences, FiniteSets, TLC

\* ---------------------------------------------------------------- bounds
MaxSockets == 2      \* WebSocket objects one session may create
MaxCalls == 2        \* execute() calls issued by the caller
MaxFrames == 2       \* inbound frames delivered by the remote side

Sockets == 1..MaxSockets
Calls == 1..MaxCalls

\* ------------------------------------------------------- wire data model
\* Display sizes a remote machine may report.
Dims == {<<800, 600>>}

NoMeta == [w |-> 0, h |-> 0]
MetaOf(d) == [w |-> d[1], h |-> d[2]]

\* The JSON value found under tool_result.system of a raw frame:
\*   null, a string holding the serialized metadata, or a JSON object
\*   holding the metadata.
SysNull == [t |-> "null", isMeta |-> FALSE, meta |-> NoMeta]
SysStrMeta(d) == [t |-> "string", isMeta |-> TRUE, meta |-> MetaOf(d)]
SysObjMeta(d) == [t |-> "object", isMeta |-> TRUE, meta |-> MetaOf(d)]

\* Raw inbound frames (text of one WebSocket message).
ResponseFrame == [output |-> "hello world", system |-> SysNull, session_id |-> "sid-1"]
WelcomeFrame(d) == [output |-> "null", system |-> SysStrMeta(d), session_id |-> "sid-1"]
ObjectWelcomeFrame(d) == [output |-> "null", system |-> SysObjMeta(d), session_id |-> "sid-1"]

Frames == {ResponseFrame} \cup {WelcomeFrame(d) : d \in Dims} \cup {ObjectWelcomeFrame(d) : d \in Dims}

\* The action every modelled execute() sends.
BashAction == [tool |-> "bash", command |-> "echo hello world"]

\* z.string().nullable() of ToolResult.system: null or a string, never an object.
ToolResultSystemOk(sys) == sys.t \in {"null", "string"}

\* ComputerMessage.parse(JSON.parse(text)) succeeds.
ParseOk(f) == ToolResultSystemOk(f.system)

\* The parsed ComputerMessage (timestamps become Date objects, modelled by ts).
ParseMessage(f, ts) == [output |-> f.output, system |-> f.system, session_id |-> f.session_id, response_ts |-> ts]

NoMessage == [output |-> "none", system |-> SysNull, session_id |-> "none", response_ts |-> 0]

\* MachineMetadata.safeParse(x): a z.object accepts only a JSON object with
\* the metadata fields; a string is rejected whatever its text is.
MachineMetadataSafeParse(sys) == [success |-> (sys.t = "object" /\ sys.isMeta), data |-> sys.meta]

\* ------------------------------------------------------ tool descriptors
\* A Set<BetaToolUnion> compares members by object identity: id tells the
\* objects apart (0 = the module-level constants of tools.ts).
bashTool == [name |-> "bash", w |-> 0, h |-> 0, id |-> 0]
computerTool == [name |-> "computer", w |-> 1024, h |-> 768, id |-> 0]

\* ------------------------------------------------------- payload data
\* A key that is missing from a JSON object (JavaScript undefined).
Undef == "undefined"

\* block.input of a tool_use block: a JSON object with the keys the fixed
\* schemas read (Undef = key absent), or a value that is no object.
NoKeys == [kind |-> "record", command |-> Undef, action |-> Undef, coordinate |-> Undef, coordinates |-> Undef, text |-> Undef, path |-> Undef, file_text |-> Undef, old_str |-> Undef, new_str |-> Undef, insert_line |-> Undef]
NotAnObject == [NoKeys EXCEPT !.kind = "string"]

\* Tools the side-channel registry knows.
RegistryTools == {"query"}

\* A payload handed to validation: {tool, params}.
NoPayload == [tool |-> Undef, params |-> NoKeys]

\* A JSON text: its members in order, each a pair <<path, value>>.
NoText == <<>>

\* A nullable string of a ToolResult: null, or a text held as the
\* fragments it is put together from.
NullStr == [null |-> TRUE, text |-> <<>>]
Str(s) == [null |-> FALSE, text |-> <<s>>]

\* A ToolResult with nothing in it, and a message that carries it.
NoToolResult == [output |-> NullStr, error |-> NullStr, base64_image |-> NullStr, system |-> NullStr]
NoHttpMessage == [tool_result |-> NoToolResult, request_ts |-> 0]

\* No result block.
NoBlock == [type |-> "none", content |-> <<>>, tool_use_id |-> <<0, 0>>, is_error |-> "false"]

\* Computer instances of one process, and the Set objects their
\* options.tools may refer to: 0 is defaultOptions.tools, i the Set the
\* caller passed to instance i.
Instances == {1, 2}

VARIABLES
  alive,            \* the process has not died of an uncaught exception
  ws,               \* this.ws: 0 (null) or the socket it refers to
  readyState,       \* ready state of every socket ("NONE" = not created)
  wsP,              \* state of the promise connectWS() returned for the socket
  mcpP,             \* state of the promise connectMcpClient() returned in the same connect()
  mcpClient,        \* this.mcpClient is not null
  calls,            \* the execute() calls
  listeners,        \* handleMessage listeners on 'message', registration order
  wire,             \* actions written to sockets, in order
  sinkLog,          \* records appended by the Logging Sink
  machineMetadata,  \* this.machineMetadata (NoMeta = null)
  metaSet,          \* this.machineMetadata is not null
  sessionId,        \* this.sessionId ("null" = null)
  tools,            \* this.options.tools
  updatedAt,        \* this.updatedAt (0 = null)
  delivered,        \* history: frames the 'message' handler was run for
  metaWrites,       \* history: assignments to this.machineMetadata
  errorEvents,      \* history: invocations of options.onError
  closeEvents,      \* history: invocations of options.onClose
  serialized,       \* history: no execute() was started while another was unsettled
  sinkOk,           \* the conversation log file of the Logging Sink can be appended to
  loopPc,           \* useComputer(): position of the orchestration loop
  messages,         \* useComputer(): the conversation (messages array)
  content,          \* useComputer(): response.content of the oracle turn being processed
  pos,              \* useComputer(): index of the content item being processed
  toolResults,      \* useComputer(): toolResults of the oracle turn being processed
  dispatched,       \* history: tool dispatches of handleToolRequest, in order
  failure,          \* history: what made useComputer() throw ("none" = nothing)
  openEvents,       \* history: invocations of options.onOpen
  sideCall,         \* the last side-channel operation the caller made, and how it went
  metaWait,         \* getMetadata(): the bounded wait for machine metadata
  advertised,       \* what listAllTools() returns at this moment
  toolsArg,         \* useComputer(): const tools
  invoked,          \* history: the last oracle request (tools passed, tools advertised then)
  vPc,              \* Action Model: how far the payload has been taken
  raw,              \* Action Model: the payload handed to validation
  validated,        \* Action Model: outcome of the two validation stages
  encoded,          \* Action Model: JSON.stringify of the validated value
  decoded,          \* Action Model: JSON.parse of that text
  urlCall,          \* getMcpUrl(): arguments and outcome
  toolCall,         \* makeToolResult(): arguments and the block returned
  logCall,          \* HTTP variant: one execute() or screenshot(), and what the sink did
  toolSets,         \* the Set objects of tool descriptors, by object
  optionsTools      \* the Set object this.options.tools of each instance refers to (-1 = not constructed)

vars == <<alive, ws, readyState, wsP, mcpP, mcpClient, calls, listeners, wire, sinkLog, machineMetadata, metaSet, sessionId, tools, updatedAt, delivered, metaWrites, errorEvents, closeEvents, serialized, sinkOk, loopPc, messages, content, pos, toolResults, dispatched, failure, openEvents, sideCall, metaWait, advertised, toolsArg, invoked, vPc, raw, validated, encoded, decoded, urlCall, toolCall, logCall, toolSets, optionsTools>>

loopVars == <<loopPc, messages, content, pos, toolResults, dispatched, failure>>

transportVars == <<alive, ws, readyState, wsP, mcpP, mcpClient, calls, listeners, wire, sinkLog, machineMetadata, metaSet, sessionId, tools, updatedAt, delivered, metaWrites, errorEvents, closeEvents, serialized>>

toolVars == <<advertised, toolsArg, invoked>>

auxVars == <<toolCall, logCall, toolSets, optionsTools>>

pureVars == <<vPc, raw, validated, encoded, decoded, urlCall, auxVars>>

extVars == <<openEvents, sideCall, metaWait, toolVars, pureVars>>

sessionVars == <<machineMetadata, metaSet, sessionId, tools, updatedAt, metaWrites>>

IdleCall == [pc |-> "idle", conn |-> 0, implicit |-> FALSE, sent |-> "no", sentOn |-> 0, result |-> NoMessage]

\* The session, the loop and the side channel after construction.
InitSession ==
  /\ alive = TRUE
  /\ ws = 0
  /\ readyState = [s \in Sockets |-> "NONE"]
  /\ wsP = [s \in Sockets |-> "none"]
  /\ mcpP = [s \in Sockets |-> "none"]
  /\ mcpClient = FALSE
  /\ calls = [c \in Calls |-> IdleCall]
  /\ listeners = <<>>
  /\ wire = <<>>
  /\ sinkLog = <<>>
  /\ machineMetadata = NoMeta
  /\ metaSet = FALSE
  /\ sessionId = "null"
  /\ tools = {bashTool, computerTool}
  /\ updatedAt = 0
  /\ delivered = <<>>
  /\ metaWrites = 0
  /\ errorEvents = 0
  /\ closeEvents = 0
  /\ serialized = TRUE
  /\ sinkOk = TRUE
  /\ loopPc = "idle"
  /\ messages = <<>>
  /\ content = <<>>
  /\ pos = 0
  /\ toolResults = <<>>
  /\ dispatched = <<>>
  /\ failure = "none"
  /\ openEvents = 0
  /\ sideCall = [op |-> "none", client |-> FALSE, threw |-> FALSE, contacted |-> FALSE]
  /\ metaWait = [pc |-> "idle", timeout |-> 0, elapsed |-> 0, error |-> "none"]
  /\ advertised = {"bash", "computer"} \cup RegistryTools
  /\ toolsArg = {}
  /\ invoked = [n |-> 0, tools |-> {}, advertised |-> {}]

\* Nothing has been handed to makeToolResult() or to the HTTP variant's
\* execute(); the module is loaded (defaultOptions.tools exists) and no
\* further instance is constructed.
InitAux ==
  /\ toolCall = [pc |-> "idle", result |-> NoToolResult, id |-> <<0, 0>>, block |-> NoBlock]
  /\ logCall = [pc |-> "idle", op |-> "none", received |-> NoHttpMessage, message |-> NoHttpMessage, log |-> <<>>, files |-> {}, outcome |-> "none"]
  /\ toolSets = [o \in {0} \cup Instances |-> IF o = 0 THEN {"bash", "computer"} ELSE {}]
  /\ optionsTools = [i \in Instances |-> -1]

\* No payload is being validated, no URL asked for.
InitPure ==
  /\ vPc = "idle"
  /\ raw = NoPayload
  /\ validated = [kind |-> "none", data |-> NoPayload]
  /\ encoded = NoText
  /\ decoded = NoPayload
  /\ urlCall = [pc |-> "idle", baseURL |-> <<>>, machineId |-> [null |-> TRUE, text |-> <<>>], threw |-> FALSE, value |-> <<>>]

\* State after construction.
Init == InitSession /\ InitPure /\ InitAux


\* ------------------------------------------------------------- helpers
Created == {s \in Sockets : readyState[s] # "NONE"}
NextSocket == Cardinality(Created) + 1

\* Mutant: isConnected() only tests that a socket object exists.
isConnectedNonNull == ws # 0

\* isConnected(): this.ws?.readyState === WebSocket.OPEN
isConnected == ws # 0 /\ readyState[ws] = "OPEN"

\* Mutant: connect() waits for the MCP client only.
ConnectAllMcpOnly(s) ==
  IF mcpP[s] = "rejected" THEN "rejected"
  ELSE IF mcpP[s] = "resolved" THEN "resolved"
  ELSE "pending"

\* State of the promise connect() returns: Promise.all of the two promises.
ConnectAll(s) ==
  IF wsP[s] = "rejected" \/ mcpP[s] = "rejected" THEN "rejected"
  ELSE IF wsP[s] = "resolved" /\ mcpP[s] = "resolved" THEN "resolved"
  ELSE "pending"

Unsettled(c) == calls[c].pc \in {"awaitConnect", "pending"}

\* A continuation of an await is runnable: it runs before any I/O event.
MicrotaskPending ==
  \E c \in Calls :
    /\ calls[c].pc = "awaitConnect"
    /\ IF calls[c].conn = 0 THEN TRUE ELSE ConnectAll(calls[c].conn) # "pending"

\* Mutant: connectWS() creates the socket without storing it in this.ws.
connectStartForgetsSocket(s) ==
  /\ s = NextSocket
  /\ s \in Sockets
  /\ readyState' = [readyState EXCEPT ![s] = "CONNECTING"]
  /\ wsP' = [wsP EXCEPT ![s] = "pending"]
  /\ mcpP' = [mcpP EXCEPT ![s] = "pending"]
  /\ ws' = ws
  /\ mcpClient' = TRUE

\* ----------------------------------------------------------- connect()
\* connectWS() creates the socket and stores it in this.ws;
\* connectMcpClient() creates the MCP client and starts its connection.
connectStart(s) ==
  /\ s = NextSocket
  /\ s \in Sockets
  /\ readyState' = [readyState EXCEPT ![s] = "CONNECTING"]
  /\ wsP' = [wsP EXCEPT ![s] = "pending"]
  /\ mcpP' = [mcpP EXCEPT ![s] = "pending"]
  /\ ws' = s
  /\ mcpClient' = TRUE

\* The caller invokes connect() directly.
connect ==
  /\ alive
  /\ connectStart(NextSocket)
  /\ UNCHANGED <<alive, calls, listeners, wire, sinkLog, delivered, errorEvents, closeEvents, serialized>>
  /\ UNCHANGED sessionVars
  /\ UNCHANGED <<sinkOk, loopVars, extVars>>

\* The MCP client connection of one connect() succeeds / fails.
McpResolve(s) ==
  /\ alive /\ ~MicrotaskPending
  /\ mcpP[s] = "pending"
  /\ mcpP' = [mcpP EXCEPT ![s] = "resolved"]
  /\ UNCHANGED <<alive, ws, readyState, wsP, mcpClient, calls, listeners, wire, sinkLog, delivered, errorEvents, closeEvents, serialized>>
  /\ UNCHANGED sessionVars
  /\ UNCHANGED <<sinkOk, loopVars, extVars>>

McpReject(s) ==
  /\ alive /\ ~MicrotaskPending
  /\ mcpP[s] = "pending"
  /\ mcpP' = [mcpP EXCEPT ![s] = "rejected"]
  /\ UNCHANGED <<alive, ws, readyState, wsP, mcpClient, calls, listeners, wire, sinkLog, delivered, errorEvents, closeEvents, serialized>>
  /\ UNCHANGED sessionVars
  /\ UNCHANGED <<sinkOk, loopVars, extVars>>

\* ----------------------------------------------------------- execute()
\* execute() up to its first await: ensureConnected() calls connect()
\* when isConnected() is false.
executeStart(c) ==
  /\ alive
  /\ calls[c].pc = "idle"
  /\ \A d \in Calls : d < c => calls[d].pc # "idle"
  /\ serialized' = (serialized /\ \A d \in Calls : ~Unsettled(d))
  /\ IF isConnected
       THEN /\ calls' = [calls EXCEPT ![c].pc = "awaitConnect"]
            /\ UNCHANGED <<ws, readyState, wsP, mcpP, mcpClient>>
       ELSE /\ connectStart(NextSocket)
            /\ calls' = [calls EXCEPT ![c].pc = "awaitConnect", ![c].conn = NextSocket, ![c].implicit = TRUE]
  /\ UNCHANGED <<alive, listeners, wire, sinkLog, delivered, errorEvents, closeEvents>>
  /\ UNCHANGED sessionVars
  /\ UNCHANGED <<sinkOk, loopVars, extVars>>

\* Mutant: sendWS(data) only checks that a socket object exists.
sendWSThrowsOnlyWhenAbsent == ws = 0

\* sendWS(data) would throw: no socket, or the socket is not open.
sendWSThrows == ws = 0 \/ readyState[ws] # "OPEN"

\* execute() after the await: the listener is registered, then sendWS()
\* is called without being awaited.  sendWS() checks the socket, calls
\* logSend() (appendFileSync) and then writes to the socket.  When
\* sendWS() throws (socket not open, or the append fails), its promise is
\* rejected with no handler: the process dies unless the host handles
\* unhandled rejections.
executeContinue(c) ==
  /\ alive
  /\ calls[c].pc = "awaitConnect"
  /\ IF calls[c].conn = 0 THEN TRUE ELSE ConnectAll(calls[c].conn) = "resolved"
  /\ listeners' = Append(listeners, c)
  /\ IF sendWSThrows
       THEN /\ calls' = [calls EXCEPT ![c].pc = "pending", ![c].sent = "dropped"]
            /\ alive' \in BOOLEAN
            /\ UNCHANGED <<wire, sinkLog>>
       ELSE IF ~sinkOk
         THEN /\ calls' = [calls EXCEPT ![c].pc = "pending", ![c].sent = "logfail"]
              /\ alive' \in BOOLEAN
              /\ UNCHANGED <<wire, sinkLog>>
         ELSE /\ calls' = [calls EXCEPT ![c].pc = "pending", ![c].sent = "sent", ![c].sentOn = ws]
              /\ sinkLog' = Append(sinkLog, [dir |-> "send", call |-> c, msg |-> NoMessage])
              /\ wire' = Append(wire, [sock |-> ws, call |-> c, action |-> BashAction])
              /\ UNCHANGED alive
  /\ UNCHANGED <<ws, readyState, wsP, mcpP, mcpClient, delivered, errorEvents, closeEvents, serialized>>
  /\ UNCHANGED sessionVars
  /\ UNCHANGED <<sinkOk, loopVars, extVars>>

\* The awaited connect() rejected: execute() rejects with the same error.
executeReject(c) ==
  /\ alive
  /\ calls[c].pc = "awaitConnect"
  /\ calls[c].conn # 0
  /\ ConnectAll(calls[c].conn) = "rejected"
  /\ calls' = [calls EXCEPT ![c].pc = "rejected"]
  /\ UNCHANGED <<alive, ws, readyState, wsP, mcpP, mcpClient, listeners, wire, sinkLog, delivered, errorEvents, closeEvents, serialized>>
  /\ UNCHANGED sessionVars
  /\ UNCHANGED <<sinkOk, loopVars, extVars>>

\* ------------------------------------------------------------- close()
\* this.ws?.close(); this.ws = null
close ==
  /\ alive
  /\ ws # 0
  /\ readyState' = [readyState EXCEPT ![ws] = IF @ \in {"CONNECTING", "OPEN"} THEN "CLOSING" ELSE @]
  /\ ws' = 0
  /\ UNCHANGED <<alive, wsP, mcpP, mcpClient, calls, listeners, wire, sinkLog, delivered, errorEvents, closeEvents, serialized>>
  /\ UNCHANGED sessionVars
  /\ UNCHANGED <<sinkOk, loopVars, extVars>>

\* ------------------------------------------------ handshake extractor
\* handleConnectionMessage(message): on a successful safeParse the
\* metadata and the session id are stored and the computer descriptor is
\* replaced (delete the module constant, add a new object).
handleConnectionMessage(msg) ==
  LET tryParse == MachineMetadataSafeParse(msg.system) IN
  IF tryParse.success
    THEN /\ machineMetadata' = tryParse.data
         /\ metaSet' = TRUE
         /\ metaWrites' = metaWrites + 1
         /\ sessionId' = msg.session_id
         /\ tools' = (tools \ {computerTool}) \cup {[name |-> "computer", w |-> tryParse.data.w, h |-> tryParse.data.h, id |-> metaWrites + 1]}
    ELSE UNCHANGED <<machineMetadata, metaSet, metaWrites, sessionId, tools>>

\* listComputerUseTools(): Array.from(this.options.tools)
listComputerUseTools == tools

\* ---------------------------------------------------- socket handlers
\* setupEventHandlers(): the methods the constructor registers on the
\* Computer, by the name of the event.
HandlersOn(event) ==
  CASE event = "open" -> {"onOpen"}
    [] event = "message" -> {"onMessage"}
    [] event = "error" -> {"onError"}
    [] event = "close" -> {"onClose"}
    [] OTHER -> {}

\* ws 'open': emit('connected') (no listener is registered for it), resolve().
\* onOpen, which calls options.onOpen, runs when it is among the listeners
\* of the emitted event.
SocketOpen(s) ==
  /\ alive /\ ~MicrotaskPending
  /\ readyState[s] = "CONNECTING"
  /\ readyState' = [readyState EXCEPT ![s] = "OPEN"]
  /\ wsP' = [wsP EXCEPT ![s] = "resolved"]
  /\ openEvents' = IF "onOpen" \in HandlersOn("connected") THEN openEvents + 1 ELSE openEvents
  /\ UNCHANGED <<alive, ws, mcpP, mcpClient, calls, listeners, wire, sinkLog, delivered, errorEvents, closeEvents, serialized>>
  /\ UNCHANGED sessionVars
  /\ UNCHANGED <<sinkOk, loopVars>>
  /\ UNCHANGED <<sideCall, metaWait, toolVars, pureVars>>

\* The calls whose handleMessage listener is registered when the event is emitted.
Listening == {listeners[i] : i \in 1..Len(listeners)}

\* Mutant: handleMessage resolves without removing its listener.
handleMessageKeepsListener(cs, msg) ==
  /\ calls' = [c \in Calls |-> IF c \in cs THEN [calls[c] EXCEPT !.pc = "resolved", !.result = msg] ELSE calls[c]]
  /\ UNCHANGED listeners

\* handleMessage of execute(): parse, remove the listener, resolve.
handleMessage(cs, msg) ==
  /\ calls' = [c \in Calls |-> IF c \in cs THEN [calls[c] EXCEPT !.pc = "resolved", !.result = msg] ELSE calls[c]]
  /\ listeners' = SelectSeq(listeners, LAMBDA c : c \notin cs)

\* ws 'message': emit('message', message).  The listeners run in
\* registration order: onMessage first, then every handleMessage.  A frame
\* that does not parse makes onMessage throw: no later listener runs and
\* the exception leaves the event handler uncaught.  So does a frame whose
\* logReceive() (appendFileSync) fails, after updatedAt was set.
SocketMessage(s, f) ==
  /\ alive /\ ~MicrotaskPending
  /\ readyState[s] = "OPEN"
  /\ Len(delivered) < MaxFrames
  /\ delivered' = Append(delivered, [sock |-> s, frame |-> f])
  /\ IF ParseOk(f)
       THEN LET msg == ParseMessage(f, Len(delivered) + 1) IN
            IF sinkOk
              THEN /\ updatedAt' = msg.response_ts
                   /\ sinkLog' = Append(sinkLog, [dir |-> "recv", call |-> 0, msg |-> msg])
                   /\ handleConnectionMessage(msg)
                   /\ handleMessage(Listening, msg)
                   /\ UNCHANGED alive
              ELSE /\ updatedAt' = msg.response_ts
                   /\ alive' \in BOOLEAN
                   /\ UNCHANGED <<calls, listeners, sinkLog, machineMetadata, metaSet, sessionId, tools, metaWrites>>
       ELSE /\ alive' \in BOOLEAN
            /\ UNCHANGED <<calls, listeners, sinkLog>>
            /\ UNCHANGED sessionVars
  /\ UNCHANGED <<ws, readyState, wsP, mcpP, mcpClient, wire, errorEvents, closeEvents, serialized>>
  /\ UNCHANGED <<sinkOk, loopVars, extVars>>

\* ws 'error' on an open socket: emit('error') runs onError, which calls
\* options.onError; reject() finds the promise already settled.
SocketError(s) ==
  /\ alive /\ ~MicrotaskPending
  /\ readyState[s] = "OPEN"
  /\ readyState' = [readyState EXCEPT ![s] = "CLOSING"]
  /\ errorEvents' = errorEvents + 1
  /\ UNCHANGED <<alive, ws, wsP, mcpP, mcpClient, calls, listeners, wire, sinkLog, delivered, closeEvents, serialized>>
  /\ UNCHANGED sessionVars
  /\ UNCHANGED <<sinkOk, loopVars, extVars>>

\* Mutant: the 'error' and 'close' handlers emit their events without
\* rejecting the connectWS() promise.
SocketFailNoReject(s) ==
  /\ alive /\ ~MicrotaskPending
  /\ readyState[s] = "CONNECTING" \/ (readyState[s] = "CLOSING" /\ wsP[s] = "pending")
  /\ readyState' = [readyState EXCEPT ![s] = "CLOSED"]
  /\ errorEvents' = errorEvents + 1
  /\ closeEvents' = closeEvents + 1
  /\ UNCHANGED <<alive, ws, wsP, mcpP, mcpClient, calls, listeners, wire, sinkLog, delivered, serialized>>
  /\ UNCHANGED sessionVars
  /\ UNCHANGED <<sinkOk, loopVars, extVars>>

\* The opening handshake fails or is aborted: ws emits 'error' and then
\* 'close'; the first reject() settles the connectWS() promise.
SocketFail(s) ==
  /\ alive /\ ~MicrotaskPending
  /\ readyState[s] = "CONNECTING" \/ (readyState[s] = "CLOSING" /\ wsP[s] = "pending")
  /\ readyState' = [readyState EXCEPT ![s] = "CLOSED"]
  /\ wsP' = [wsP EXCEPT ![s] = "rejected"]
  /\ errorEvents' = errorEvents + 1
  /\ closeEvents' = closeEvents + 1
  /\ UNCHANGED <<alive, ws, mcpP, mcpClient, calls, listeners, wire, sinkLog, delivered, serialized>>
  /\ UNCHANGED sessionVars
  /\ UNCHANGED <<sinkOk, loopVars, extVars>>

\* ws 'close' of a socket that had opened: emit('close') runs onClose,
\* which calls options.onClose; reject() finds the promise already settled.
SocketClose(s) ==
  /\ alive /\ ~MicrotaskPending
  /\ readyState[s] = "OPEN" \/ (readyState[s] = "CLOSING" /\ wsP[s] # "pending")
  /\ readyState' = [readyState EXCEPT ![s] = "CLOSED"]
  /\ closeEvents' = closeEvents + 1
  /\ UNCHANGED <<alive, ws, wsP, mcpP, mcpClient, calls, listeners, wire, sinkLog, delivered, errorEvents, serialized>>
  /\ UNCHANGED sessionVars
  /\ UNCHANGED <<sinkOk, loopVars, extVars>>

\* The conversation log file stops being writable (directory removed,
\* disk full): appendFileSync throws from then on.
SinkFail ==
  /\ alive /\ ~MicrotaskPending
  /\ sinkOk
  /\ sinkOk' = FALSE
  /\ UNCHANGED transportVars
  /\ UNCHANGED <<loopVars, extVars>>

\* ------------------------------------------------ side-channel operations
McpOps == {"listMcpTools", "callMcpTool", "startMcpServer", "getMcpServerCapabilities", "getMcpServerVersion", "mcpPing"}

\* The operations that begin with `if (!this.mcpClient) throw`:
\* startMcpServer() has no such line.
GuardedOps == McpOps \ {"startMcpServer"}

\* The caller invokes a side-channel operation; sideCall.client tells
\* whether this.mcpClient was set by then.  A guarded operation
\* throws 'MCP Client not initialized' while this.mcpClient is null.
\* Otherwise startMcpServer() POSTs to `${mcp_url}/register_server` with
\* fetch, and the other operations hand over to the MCP client object,
\* whose outcome is the library's.
McpOperation(op) ==
  /\ alive
  /\ IF op \in GuardedOps /\ ~mcpClient
       THEN sideCall' = [op |-> op, client |-> mcpClient, threw |-> TRUE, contacted |-> FALSE]
       ELSE \E t \in BOOLEAN, c \in BOOLEAN :
              /\ op = "startMcpServer" => c
              /\ sideCall' = [op |-> op, client |-> mcpClient, threw |-> t, contacted |-> c]
  /\ UNCHANGED <<transportVars, sinkOk, loopVars>>
  /\ UNCHANGED <<openEvents, metaWait, toolVars, pureVars>>

\* ------------------------------------------------------- getMetadata()
\* The bounded wait for machine metadata.  Its code is not among the
\* sources (only its callers are): it is modelled from sections 4.3, 5
\* and 7 of the specification.  Times are in milliseconds.
DefaultMetadataTimeout == 10000
TimeoutSamples == {10, DefaultMetadataTimeout}

\* getMetadata(timeout): resolves at once when the metadata is there,
\* else waits for the "metadata ready" event or for the timer.
getMetadata(timeout) ==
  /\ alive
  /\ metaWait.pc = "idle"
  /\ metaWait' = IF metaSet
                   THEN [pc |-> "resolved", timeout |-> timeout, elapsed |-> 0, error |-> "none"]
                   ELSE [pc |-> "waiting", timeout |-> timeout, elapsed |-> 0, error |-> "none"]
  /\ UNCHANGED <<transportVars, sinkOk, loopVars>>
  /\ UNCHANGED <<openEvents, sideCall, toolVars, pureVars>>

\* Time passes up to the deadline of the wait.
TimePasses ==
  /\ metaWait.pc = "waiting"
  /\ metaWait.elapsed < metaWait.timeout
  /\ metaWait' = [metaWait EXCEPT !.elapsed = metaWait.timeout]
  /\ UNCHANGED <<transportVars, sinkOk, loopVars>>
  /\ UNCHANGED <<openEvents, sideCall, toolVars, pureVars>>

\* Mutant: the wait has no timer; only the event ends it.
MetadataWaitSettlesOnEventOnly ==
  /\ alive
  /\ metaWait.pc = "waiting"
  /\ metaSet
  /\ metaWait' = [metaWait EXCEPT !.pc = "resolved"]
  /\ UNCHANGED <<transportVars, sinkOk, loopVars>>
  /\ UNCHANGED <<openEvents, sideCall, toolVars, pureVars>>

\* The wait ends: with the metadata once the handshake has promoted it,
\* with a HandshakeTimeoutError once the bound has elapsed.
MetadataWaitSettles ==
  /\ alive
  /\ metaWait.pc = "waiting"
  /\ IF metaSet
       THEN metaWait' = [metaWait EXCEPT !.pc = "resolved"]
       ELSE /\ metaWait.elapsed >= metaWait.timeout
            /\ metaWait' = [metaWait EXCEPT !.pc = "rejected", !.error = "HandshakeTimeoutError"]
  /\ UNCHANGED <<transportVars, sinkOk, loopVars>>
  /\ UNCHANGED <<openEvents, sideCall, toolVars, pureVars>>

\* ------------------------------------------------------ specification
Next ==
  \/ connect
  \/ close
  \/ \E c \in Calls : executeStart(c)
  \/ \E c \in Calls : executeContinue(c)
  \/ \E c \in Calls : executeReject(c)
  \/ \E s \in Sockets : McpResolve(s)
  \/ \E s \in Sockets : McpReject(s)
  \/ \E s \in Sockets : SocketOpen(s)
  \/ \E s \in Sockets, f \in Frames : SocketMessage(s, f)
  \/ \E s \in Sockets : SocketError(s)
  \/ \E s \in Sockets : SocketFail(s)
  \/ \E s \in Sockets : SocketClose(s)

Spec == Init /\ [][Next]_vars

\* The event loop runs every runnable continuation; the remote side and
\* the caller are under no obligation.
FairSpec == Spec /\ \A c \in Calls : WF_vars(executeContinue(c)) /\ WF_vars(executeReject(c))

\* The session with a Logging Sink that may fail.
SinkNext ==
  \/ close
  \/ \E c \in Calls : executeStart(c)
  \/ \E c \in Calls : executeContinue(c)
  \/ \E c \in Calls : executeReject(c)
  \/ \E s \in Sockets : McpResolve(s)
  \/ \E s \in Sockets : McpReject(s)
  \/ \E s \in Sockets : SocketOpen(s)
  \/ \E s \in Sockets, f \in Frames : SocketMessage(s, f)
  \/ \E s \in Sockets : SocketError(s)
  \/ \E s \in Sockets : SocketFail(s)
  \/ \E s \in Sockets : SocketClose(s)
  \/ SinkFail

SinkSpec == Init /\ [][SinkNext]_vars

\* The session seen from the side channel: connect() and the operations
\* of the Side-Channel Tool Registry.
SideNext ==
  \/ connect
  \/ \E s \in Sockets : McpResolve(s)
  \/ \E s \in Sockets : McpReject(s)
  \/ \E op \in McpOps : McpOperation(op)

SideSpec == Init /\ [][SideNext]_vars

\* The session of a caller that connects and waits for the metadata; the
\* clock advances and a timer that is due fires.
MetaNext ==
  \/ connect
  \/ close
  \/ \E s \in Sockets : SocketOpen(s)
  \/ \E s \in Sockets, f \in Frames : SocketMessage(s, f)
  \/ \E s \in Sockets : SocketClose(s)
  \/ \E timeout \in TimeoutSamples : getMetadata(timeout)
  \/ TimePasses
  \/ MetadataWaitSettles

MetaSpec == Init /\ [][MetaNext]_vars /\ WF_vars(TimePasses) /\ WF_vars(MetadataWaitSettles)

TypeOK ==
  /\ alive \in BOOLEAN
  /\ ws \in 0..MaxSockets
  /\ \A s \in Sockets : readyState[s] \in {"NONE", "CONNECTING", "OPEN", "CLOSING", "CLOSED"}
  /\ \A c \in Calls : calls[c].pc \in {"idle", "awaitConnect", "pending", "resolved", "rejected"}
  /\ Len(delivered) <= MaxFrames

\* ===================================================================
\* Orchestration loop (src/lib/anthropic.ts) and the Action Model
\* (src/lib/schemas).  The Computer is seen from outside: execute() and
\* callMcpTool() are awaited calls that the environment settles.
\* ===================================================================
MaxItems == 3        \* content items the oracle emits in one run, over all its turns

\* BashAction: tool 'bash', params.command a string of length >= 1.
BashActionSafeParse(p) ==
  /\ p.tool = "bash"
  /\ p.params.kind = "record"
  /\ p.params.command \notin {Undef, ""}

\* Mutant: mouse_move reads its target from 'coordinates', as
\* left_click_drag does.
ComputerParamsSafeParseCoordinates(i) ==
  /\ i.kind = "record"
  /\ \/ i.action = "mouse_move" /\ i.coordinates = "int2"
     \/ i.action = "left_click_drag" /\ i.coordinates = "int2"
     \/ i.action \in {"cursor_position", "left_click", "right_click", "middle_click", "double_click", "screenshot"}
     \/ i.action \in {"key", "type"} /\ i.text \notin {Undef, ""}

\* ComputerParams: discriminated union on 'action'.  Pairs of integers
\* are "int2"; any other value of a coordinate key is "other".
ComputerParamsSafeParse(i) ==
  /\ i.kind = "record"
  /\ \/ i.action = "mouse_move" /\ i.coordinate = "int2"
     \/ i.action = "left_click_drag" /\ i.coordinates = "int2"
     \/ i.action \in {"cursor_position", "left_click", "right_click", "middle_click", "double_click", "screenshot"}
     \/ i.action \in {"key", "type"} /\ i.text \notin {Undef, ""}

ComputerActionSafeParse(p) == p.tool = "computer" /\ ComputerParamsSafeParse(p.params)

\* EditParams: discriminated union on 'command'.
EditParamsSafeParse(i) ==
  /\ i.kind = "record"
  /\ i.path # Undef
  /\ \/ i.command \in {"view", "undo_edit"}
     \/ i.command = "create" /\ i.file_text # Undef
     \/ i.command = "str_replace" /\ i.old_str # Undef
     \/ i.command = "insert" /\ i.insert_line # Undef /\ i.new_str # Undef

EditActionSafeParse(p) == p.tool = "str_replace_editor" /\ EditParamsSafeParse(p.params)

\* Action: z.union([BashAction, ComputerAction, EditAction])
ActionSafeParse(p) == BashActionSafeParse(p) \/ ComputerActionSafeParse(p) \/ EditActionSafeParse(p)

\* Mutant: UnknownAction without the minimum length of the tool name.
UnknownActionSafeParseAnyName(p) == p.tool # Undef /\ p.params.kind = "record"

\* UnknownAction: tool a string of length >= 1, params any record.
UnknownActionSafeParse(p) == p.tool \notin {Undef, ""} /\ p.params.kind = "record"

\* Content items an oracle turn is made of.
TextItem == [type |-> "text", name |-> Undef, input |-> NoKeys, id |-> <<0, 0>>]
ToolUse(name, input) == [type |-> "tool_use", name |-> name, input |-> input, id |-> <<0, 0>>]

ItemSamples ==
  { TextItem,
    ToolUse("bash", [NoKeys EXCEPT !.command = "echo hello world"]),
    ToolUse("bash", [NoKeys EXCEPT !.command = ""]),
    ToolUse("computer", [NoKeys EXCEPT !.action = "screenshot"]),
    ToolUse("fake-tool", NoKeys),
    ToolUse("query", NoKeys),
    ToolUse("fake-tool", NotAnObject) }


\* Mutant: every string counts, the empty one too.
TruthyNonNull(v) == ~v.null

\* JavaScript truthiness of a nullable string: neither null nor empty.
Truthy(v) == ~v.null /\ v.text # <<>> /\ v.text # <<"">>

\* tool_result of the message execute() resolves with.
ToolResultSamples ==
  { [output |-> Str("hello world"), error |-> NullStr, base64_image |-> NullStr, system |-> NullStr],
    [output |-> NullStr, error |-> Str("command not found"), base64_image |-> NullStr, system |-> NullStr] }

\* Mutant: the result block is built without the call identifier.
makeToolResultNoId(result, toolUseId) ==
  [type |-> "tool_result",
   content |-> IF Truthy(result.error) THEN <<[type |-> "text", data |-> result.error.text]>>
               ELSE (IF Truthy(result.output) THEN <<[type |-> "text", data |-> result.output.text]>> ELSE <<>>)
                    \o (IF Truthy(result.base64_image) THEN <<[type |-> "image", data |-> result.base64_image.text]>> ELSE <<>>),
   tool_use_id |-> <<0, 0>>,
   is_error |-> IF Truthy(result.error) THEN "true" ELSE "false"]

\* makeToolResult(result, toolUseId), which anthropic.ts imports from
\* ./tools under the name convertToolResult.
makeToolResult(result, toolUseId) ==
  [type |-> "tool_result",
   content |-> IF Truthy(result.error) THEN <<[type |-> "text", data |-> result.error.text]>>
               ELSE (IF Truthy(result.output) THEN <<[type |-> "text", data |-> result.output.text]>> ELSE <<>>)
                    \o (IF Truthy(result.base64_image) THEN <<[type |-> "image", data |-> result.base64_image.text]>> ELSE <<>>),
   tool_use_id |-> toolUseId,
   is_error |-> IF Truthy(result.error) THEN "true" ELSE "false"]

\* The block handleToolRequest builds from the result of callMcpTool():
\* content is JSON.stringify(result.content), is_error is true or undefined.
McpToolResult(isError, toolUseId) ==
  [type |-> "tool_result",
   content |-> <<[type |-> "json", data |-> <<IF isError THEN "tool error" ELSE "rows">>]>>,
   tool_use_id |-> toolUseId,
   is_error |-> IF isError THEN "true" ELSE Undef]

\* The ToolResult handleToolRequest makes up when both schemas reject:
\* error is `Tool ${block.name} failed is invalid`.
InvalidToolResult(name) ==
  [output |-> NullStr, error |-> [null |-> FALSE, text |-> <<"Tool ", name, " failed is invalid">>], base64_image |-> NullStr, system |-> NullStr]

\* ------------------------------------------------------- useComputer()
\* Oracle turns appended to the conversation so far.
AssistantTurns == Cardinality({i \in 1..Len(messages) : messages[i].role = "assistant"})

\* Content items of the oracle turns appended so far.
ItemsUsed ==
  Cardinality({p \in (1..Len(messages)) \X (1..MaxItems) :
                 messages[p[1]].role = "assistant" /\ p[2] <= Len(messages[p[1]].content)})

\* The turns the oracle may answer with: what is left of MaxItems.
Contents == UNION {[1..n -> ItemSamples] : n \in 0..(MaxItems - ItemsUsed)}

\* The content item the for loop is at, and the payload handleToolRequest
\* validates: {tool: block.name, params: block.input}.
Block == content[pos]
PayloadOf(block) == [tool |-> block.name, params |-> block.input]

\* listAllTools(): the computer use tools and the tools of the side channel.
listAllTools == advertised

\* A tool is added to what the computer advertises: registerTool(), or a
\* server started on the side channel that brings its tools ('update' is
\* one of the kips server's).
ToolRegistered ==
  /\ "update" \notin advertised
  /\ advertised' = advertised \cup {"update"}
  /\ UNCHANGED <<toolsArg, invoked>>
  /\ UNCHANGED <<transportVars, sinkOk, loopVars>>
  /\ UNCHANGED <<openEvents, sideCall, metaWait, pureVars>>

\* client.beta.messages.create({..., tools: tools}): the request carries
\* the value of the constant tools.
OracleRequest(passed) == [n |-> invoked.n + 1, tools |-> passed, advertised |-> advertised]

\* useComputer() up to its first oracle request: tools is set from
\* listAllTools(), the task is the first message of the conversation.
useComputer ==
  /\ loopPc = "idle"
  /\ toolsArg' = listAllTools
  /\ messages' = <<[role |-> "user", content |-> "task"]>>
  /\ loopPc' = "awaitOracle"
  /\ invoked' = OracleRequest(toolsArg')
  /\ UNCHANGED <<content, pos, toolResults, dispatched, failure>>
  /\ UNCHANGED <<transportVars, sinkOk, advertised>>
  /\ UNCHANGED <<openEvents, sideCall, metaWait, pureVars>>

\* client.beta.messages.create() resolves with a turn: the for loop starts
\* with empty toolResults.  The call identifiers are the oracle's.
OracleResponds(items) ==
  /\ loopPc = "awaitOracle"
  /\ ItemsUsed + Len(items) <= MaxItems
  /\ content' = [i \in 1..Len(items) |-> [items[i] EXCEPT !.id = <<AssistantTurns + 1, i>>]]
  /\ pos' = 1
  /\ toolResults' = <<>>
  /\ loopPc' = "processing"
  /\ UNCHANGED <<messages, dispatched, failure>>
  /\ UNCHANGED <<transportVars, sinkOk, extVars>>

\* client.beta.messages.create() rejects: useComputer() throws.
OracleRejects ==
  /\ loopPc = "awaitOracle"
  /\ loopPc' = "failed"
  /\ failure' = "oracle"
  /\ UNCHANGED <<messages, content, pos, toolResults, dispatched>>
  /\ UNCHANGED <<transportVars, sinkOk, extVars>>

\* Mutant: handleToolRequest tries the permissive schema first.
handleToolRequestUnknownFirst(block) ==
  IF UnknownActionSafeParse(PayloadOf(block))
    THEN /\ dispatched' = Append(dispatched, [id |-> block.id, dest |-> "mcp", payload |-> PayloadOf(block)])
         /\ loopPc' = "awaitMcp"
         /\ UNCHANGED <<pos, toolResults>>
    ELSE IF ActionSafeParse(PayloadOf(block))
      THEN /\ dispatched' = Append(dispatched, [id |-> block.id, dest |-> "execute", payload |-> PayloadOf(block)])
           /\ loopPc' = "awaitExecute"
           /\ UNCHANGED <<pos, toolResults>>
      ELSE /\ toolResults' = Append(toolResults, makeToolResult(InvalidToolResult(block.name), block.id))
           /\ pos' = pos + 1
           /\ UNCHANGED <<loopPc, dispatched>>

\* Mutant: handleToolRequest starts the call and does not await it.
handleToolRequestNotAwaited(block) ==
  IF ActionSafeParse(PayloadOf(block))
    THEN /\ dispatched' = Append(dispatched, [id |-> block.id, dest |-> "execute", payload |-> PayloadOf(block)])
         /\ pos' = pos + 1
         /\ UNCHANGED <<loopPc, toolResults>>
    ELSE IF UnknownActionSafeParse(PayloadOf(block))
      THEN /\ dispatched' = Append(dispatched, [id |-> block.id, dest |-> "mcp", payload |-> PayloadOf(block)])
           /\ pos' = pos + 1
           /\ UNCHANGED <<loopPc, toolResults>>
      ELSE /\ toolResults' = Append(toolResults, makeToolResult(InvalidToolResult(block.name), block.id))
           /\ pos' = pos + 1
           /\ UNCHANGED <<loopPc, dispatched>>

\* handleToolRequest(block, computer) up to its await: Action first, then
\* UnknownAction, then the made-up error result.
handleToolRequest(block) ==
  IF ActionSafeParse(PayloadOf(block))
    THEN /\ dispatched' = Append(dispatched, [id |-> block.id, dest |-> "execute", payload |-> PayloadOf(block)])
         /\ loopPc' = "awaitExecute"
         /\ UNCHANGED <<pos, toolResults>>
    ELSE IF UnknownActionSafeParse(PayloadOf(block))
      THEN /\ dispatched' = Append(dispatched, [id |-> block.id, dest |-> "mcp", payload |-> PayloadOf(block)])
           /\ loopPc' = "awaitMcp"
           /\ UNCHANGED <<pos, toolResults>>
      ELSE /\ toolResults' = Append(toolResults, makeToolResult(InvalidToolResult(block.name), block.id))
           /\ pos' = pos + 1
           /\ UNCHANGED <<loopPc, dispatched>>

\* One round of the for loop over response.content.
ProcessItem ==
  /\ loopPc = "processing"
  /\ pos <= Len(content)
  /\ IF Block.type = "text"
       THEN /\ pos' = pos + 1
            /\ UNCHANGED <<loopPc, toolResults, dispatched>>
       ELSE handleToolRequest(Block)
  /\ UNCHANGED <<messages, content, failure>>
  /\ UNCHANGED <<transportVars, sinkOk, extVars>>

\* computer.execute() resolves: its tool_result becomes the result block.
ExecuteResolves(result) ==
  /\ loopPc = "awaitExecute"
  /\ toolResults' = Append(toolResults, makeToolResult(result, Block.id))
  /\ pos' = pos + 1
  /\ loopPc' = "processing"
  /\ UNCHANGED <<messages, content, dispatched, failure>>
  /\ UNCHANGED <<transportVars, sinkOk, extVars>>

\* computer.execute() rejects (the connection cannot be made): nothing
\* catches it, useComputer() throws.
ExecuteRejects ==
  /\ loopPc = "awaitExecute"
  /\ loopPc' = "failed"
  /\ failure' = "transport"
  /\ UNCHANGED <<messages, content, pos, toolResults, dispatched>>
  /\ UNCHANGED <<transportVars, sinkOk, extVars>>

\* computer.callMcpTool() resolves for a tool the registry knows.
McpToolResolves(isError) ==
  /\ loopPc = "awaitMcp"
  /\ Block.name \in RegistryTools
  /\ toolResults' = Append(toolResults, McpToolResult(isError, Block.id))
  /\ pos' = pos + 1
  /\ loopPc' = "processing"
  /\ UNCHANGED <<messages, content, dispatched, failure>>
  /\ UNCHANGED <<transportVars, sinkOk, extVars>>

\* computer.callMcpTool() rejects: the registry does not know the tool,
\* or the side channel failed.  Nothing catches it, useComputer() throws.
McpToolRejects ==
  /\ loopPc = "awaitMcp"
  /\ loopPc' = "failed"
  /\ failure' = IF Block.name \in RegistryTools THEN "sidechannel" ELSE "tool"
  /\ UNCHANGED <<messages, content, pos, toolResults, dispatched>>
  /\ UNCHANGED <<transportVars, sinkOk, extVars>>

\* Mutant: the loop goes on whatever the turn held.
LoopContinuesAlways(results) == TRUE

\* if (toolResults.length > 0) ... else break
LoopContinues(results) == Len(results) > 0

\* After the for loop: the oracle's turn is appended, then the tool-result
\* turn when there is one; otherwise the loop ends.
EndTurn ==
  /\ loopPc = "processing"
  /\ pos > Len(content)
  /\ IF LoopContinues(toolResults)
       THEN /\ messages' = messages \o <<[role |-> "assistant", content |-> content], [role |-> "user", content |-> toolResults]>>
            /\ loopPc' = "awaitOracle"
            /\ invoked' = OracleRequest(toolsArg)
       ELSE /\ messages' = Append(messages, [role |-> "assistant", content |-> content])
            /\ loopPc' = "done"
            /\ UNCHANGED invoked
  /\ UNCHANGED <<content, pos, toolResults, dispatched, failure>>
  /\ UNCHANGED <<transportVars, sinkOk, advertised, toolsArg>>
  /\ UNCHANGED <<openEvents, sideCall, metaWait, pureVars>>

LoopNext ==
  \/ useComputer
  \/ \E items \in Contents : OracleResponds(items)
  \/ OracleRejects
  \/ ProcessItem
  \/ \E result \in ToolResultSamples : ExecuteResolves(result)
  \/ ExecuteRejects
  \/ \E isError \in BOOLEAN : McpToolResolves(isError)
  \/ McpToolRejects
  \/ EndTurn
  \/ ToolRegistered

LoopSpec == Init /\ [][LoopNext]_vars

\* ------------------------------- useComputer(), the getMetadata() variant
\* useComputer() of the variant that builds its system prompt from
\* computer.getMetadata(): the task is pushed, then the function awaits.
useComputerGetMetadata ==
  /\ loopPc = "idle"
  /\ messages' = <<[role |-> "user", content |-> "task"]>>
  /\ loopPc' = "awaitMetadata"
  /\ UNCHANGED <<content, pos, toolResults, dispatched, failure>>
  /\ UNCHANGED <<transportVars, sinkOk, extVars>>

\* getMetadata() resolves: without an open connection the function throws
\* 'Failed to connect to computer', else tools is set from listAllTools()
\* and the first request is made.
GetMetadataResolves ==
  /\ loopPc = "awaitMetadata"
  /\ IF ~isConnected
       THEN /\ loopPc' = "failed"
            /\ failure' = "connect"
            /\ UNCHANGED <<toolsArg, invoked>>
       ELSE /\ toolsArg' = listAllTools
            /\ invoked' = OracleRequest(toolsArg')
            /\ loopPc' = "awaitOracle"
            /\ UNCHANGED failure
  /\ UNCHANGED <<messages, content, pos, toolResults, dispatched>>
  /\ UNCHANGED <<transportVars, sinkOk, advertised>>
  /\ UNCHANGED <<openEvents, sideCall, metaWait, pureVars>>

\* getMetadata() rejects: nothing catches it, useComputer() throws.
GetMetadataRejects ==
  /\ loopPc = "awaitMetadata"
  /\ loopPc' = "failed"
  /\ failure' = "metadata"
  /\ UNCHANGED <<messages, content, pos, toolResults, dispatched>>
  /\ UNCHANGED <<transportVars, sinkOk, extVars>>

\* After the for loop of this variant: the oracle's turn is appended; with
\* tool results their turn is appended and the statement after the if,
\* return messages, ends the function; without, break ends the loop.
EndTurnReturns ==
  /\ loopPc = "processing"
  /\ pos > Len(content)
  /\ IF LoopContinues(toolResults)
       THEN messages' = messages \o <<[role |-> "assistant", content |-> content], [role |-> "user", content |-> toolResults]>>
       ELSE messages' = Append(messages, [role |-> "assistant", content |-> content])
  /\ loopPc' = "done"
  /\ UNCHANGED <<content, pos, toolResults, dispatched, failure>>
  /\ UNCHANGED <<transportVars, sinkOk, extVars>>

Loop2Next ==
  \/ connect
  \/ \E s \in Sockets : SocketOpen(s)
  \/ useComputerGetMetadata
  \/ GetMetadataResolves
  \/ GetMetadataRejects
  \/ \E items \in Contents : OracleResponds(items)
  \/ OracleRejects
  \/ ProcessItem
  \/ \E result \in ToolResultSamples : ExecuteResolves(result)
  \/ ExecuteRejects
  \/ \E isError \in BOOLEAN : McpToolResolves(isError)
  \/ McpToolRejects
  \/ EndTurnReturns

Loop2Spec == Init /\ [][Loop2Next]_vars

\* ------------------------------------ useComputer() driving the session
\* The loop of src/lib/anthropic.ts together with the Computer it calls:
\* the execute() of handleToolRequest is a call of the session, and the
\* loop resumes when that call's promise settles.
ExecDispatches == Cardinality({i \in 1..Len(dispatched) : dispatched[i].dest = "execute"})

\* The execute() call the loop is waiting for.
CurCall == ExecDispatches

\* What the oracle answers with in these runs.
DriveItems ==
  { TextItem,
    ToolUse("bash", [NoKeys EXCEPT !.command = "echo hello world"]),
    ToolUse("query", NoKeys) }

\* tool_result of the message execute() resolved with.
ToolResultOf(msg) ==
  [output |-> IF msg.output = "null" THEN NullStr ELSE Str(msg.output),
   error |-> NullStr,
   base64_image |-> NullStr,
   system |-> IF msg.system.t = "null" THEN NullStr ELSE Str("metadata")]

\* The oracle's turn, with no more execute() calls than the bound has left.
DriveOracleResponds(items) ==
  /\ \A i \in 1..Len(items) : items[i] \in DriveItems
  /\ ExecDispatches + Cardinality({i \in 1..Len(items) : items[i].type = "tool_use" /\ ActionSafeParse(PayloadOf(items[i]))}) <= MaxCalls
  /\ OracleResponds(items)

\* handleToolRequest's executor calls computer.execute(parseAction.data).
LoopExecute ==
  /\ loopPc = "awaitExecute"
  /\ CurCall \in Calls
  /\ executeStart(CurCall)

\* The awaited execute() resolved: the loop goes on with its tool_result.
LoopExecuteResolves ==
  /\ loopPc = "awaitExecute"
  /\ CurCall \in Calls
  /\ calls[CurCall].pc = "resolved"
  /\ ExecuteResolves(ToolResultOf(calls[CurCall].result))

\* The awaited execute() rejected: useComputer() throws.
LoopExecuteRejects ==
  /\ loopPc = "awaitExecute"
  /\ CurCall \in Calls
  /\ calls[CurCall].pc = "rejected"
  /\ ExecuteRejects

DriveNext ==
  \/ useComputer
  \/ \E items \in Contents : DriveOracleResponds(items)
  \/ OracleRejects
  \/ ProcessItem
  \/ LoopExecute
  \/ LoopExecuteResolves
  \/ LoopExecuteRejects
  \/ \E isError \in BOOLEAN : McpToolResolves(isError)
  \/ McpToolRejects
  \/ EndTurn
  \/ \E c \in Calls : executeContinue(c)
  \/ \E c \in Calls : executeReject(c)
  \/ \E s \in Sockets : McpResolve(s)
  \/ \E s \in Sockets : McpReject(s)
  \/ \E s \in Sockets : SocketOpen(s)
  \/ \E s \in Sockets, f \in Frames : SocketMessage(s, f)
  \/ \E s \in Sockets : SocketError(s)
  \/ \E s \in Sockets : SocketFail(s)
  \/ \E s \in Sockets : SocketClose(s)

\* The event loop runs every runnable continuation, of execute() and of
\* useComputer(); the remote side and the oracle are under no obligation.
DriveSpec ==
  /\ Init /\ [][DriveNext]_vars
  /\ \A c \in Calls : WF_vars(executeContinue(c)) /\ WF_vars(executeReject(c))
  /\ WF_vars(LoopExecute) /\ WF_vars(LoopExecuteResolves) /\ WF_vars(LoopExecuteRejects)
  /\ WF_vars(ProcessItem) /\ WF_vars(EndTurn)

\* ===================================================================
\* The Action Model as a function of its payload (src/lib/schemas), and
\* the JSON encoding a validated Action is sent in.
\* ===================================================================
\* A key that holds the JavaScript value undefined.
Undefined == "undefined value"

\* Keys of params, in the order the schemas write them.
MemberKeys == <<"command", "action", "coordinate", "coordinates", "text", "path", "file_text", "old_str", "new_str", "insert_line">>

\* Mutant: a key the shape does not name is kept, holding undefined.
StripKeepsUndefined(i, shape) ==
  [k \in DOMAIN i |-> IF k = "kind" \/ k \in shape THEN i[k]
                      ELSE IF i[k] = Undef THEN Undef ELSE Undefined]

\* z.object() parsing: the output holds the keys of the shape only.
Strip(i, shape) == [k \in DOMAIN i |-> IF k = "kind" \/ k \in shape THEN i[k] ELSE Undef]

\* Keys of the member of ComputerParams the discriminator 'action' selects.
ComputerShape(i) ==
  CASE i.action = "mouse_move" -> {"action", "coordinate"}
    [] i.action = "left_click_drag" -> {"action", "coordinates"}
    [] i.action \in {"key", "type"} -> {"action", "text"}
    [] OTHER -> {"action"}

\* Keys of the member of EditParams the discriminator 'command' selects
\* (view_range, an optional array of numbers of 'view', is left out).
EditShape(i) ==
  CASE i.command = "create" -> {"command", "path", "file_text"}
    [] i.command = "str_replace" -> {"command", "path", "old_str", "new_str"}
    [] i.command = "insert" -> {"command", "path", "insert_line", "new_str"}
    [] OTHER -> {"command", "path"}

\* data of a successful Action.safeParse(p): the output of the first
\* member of the union that accepts p.
ActionData(p) ==
  IF BashActionSafeParse(p) THEN [tool |-> "bash", params |-> Strip(p.params, {"command"})]
  ELSE IF ComputerActionSafeParse(p) THEN [tool |-> "computer", params |-> Strip(p.params, ComputerShape(p.params))]
  ELSE [tool |-> "str_replace_editor", params |-> Strip(p.params, EditShape(p.params))]

\* data of a successful UnknownAction.safeParse(p): z.record keeps every key.
UnknownActionData(p) == [tool |-> p.tool, params |-> p.params]

\* The two validation stages of handleToolRequest, as a function.
Validate(p) ==
  IF ActionSafeParse(p) THEN [kind |-> "action", data |-> ActionData(p)]
  ELSE IF UnknownActionSafeParse(p) THEN [kind |-> "unknown", data |-> UnknownActionData(p)]
  ELSE [kind |-> "invalid", data |-> NoPayload]

\* JSON.stringify(v) of a {tool, params} value: a member whose value is
\* undefined (or whose key is absent) is not written.
JsonStringify(v) ==
  (IF v.tool \in {Undef, Undefined} THEN <<>> ELSE <<[path |-> <<"tool">>, value |-> v.tool]>>)
  \o (IF v.params.kind = "record" THEN <<>> ELSE <<[path |-> <<"params">>, value |-> v.params.kind]>>)
  \o SelectSeq([n \in 1..Len(MemberKeys) |-> [path |-> <<"params", MemberKeys[n]>>, value |-> v.params[MemberKeys[n]]]],
               LAMBDA m : m.value \notin {Undef, Undefined})

\* The value a JSON text holds at a path (Undef = no such member).
MemberAt(text, path) ==
  IF \E n \in 1..Len(text) : text[n].path = path
    THEN text[CHOOSE n \in 1..Len(text) : text[n].path = path].value
    ELSE Undef

\* JSON.parse(text)
JsonParse(text) ==
  [tool |-> MemberAt(text, <<"tool">>),
   params |-> [k \in DOMAIN NoKeys |->
                 IF k = "kind" THEN (IF MemberAt(text, <<"params">>) = Undef THEN "record" ELSE MemberAt(text, <<"params">>))
                 ELSE MemberAt(text, <<"params", k>>)]]

\* params of the payloads validation is tried on.
ParamSamples ==
  { NoKeys,
    NotAnObject,
    [NoKeys EXCEPT !.command = "echo hello world"],
    [NoKeys EXCEPT !.command = ""],
    [NoKeys EXCEPT !.command = "ls -la", !.text = "extra"],
    [NoKeys EXCEPT !.action = "screenshot"],
    [NoKeys EXCEPT !.action = "cursor_position", !.path = "extra"],
    [NoKeys EXCEPT !.action = "mouse_move", !.coordinate = "int2"],
    [NoKeys EXCEPT !.action = "mouse_move", !.coordinates = "int2"],
    [NoKeys EXCEPT !.action = "mouse_move", !.coordinate = "other"],
    [NoKeys EXCEPT !.action = "left_click_drag", !.coordinates = "int2"],
    [NoKeys EXCEPT !.action = "left_click_drag", !.coordinate = "int2"],
    [NoKeys EXCEPT !.action = "type", !.text = "hello"],
    [NoKeys EXCEPT !.action = "key", !.text = ""],
    [NoKeys EXCEPT !.action = "scroll"],
    [NoKeys EXCEPT !.command = "view", !.path = "/tmp/f"],
    [NoKeys EXCEPT !.command = "create", !.path = "/tmp/f", !.file_text = "text"],
    [NoKeys EXCEPT !.command = "create", !.path = "/tmp/f"],
    [NoKeys EXCEPT !.command = "str_replace", !.path = "/tmp/f", !.old_str = "a"],
    [NoKeys EXCEPT !.command = "str_replace", !.path = "/tmp/f", !.old_str = "a", !.new_str = "b"],
    [NoKeys EXCEPT !.command = "insert", !.path = "/tmp/f", !.insert_line = "1", !.new_str = "b"],
    [NoKeys EXCEPT !.command = "insert", !.path = "/tmp/f", !.insert_line = "1"],
    [NoKeys EXCEPT !.command = "undo_edit"],
    [NoKeys EXCEPT !.command = "undo_edit", !.path = "/tmp/f"] }

\* tool of the payloads validation is tried on.
ToolSamples == {"bash", "computer", "str_replace_editor", "fake-tool", "query", "", Undef}

Payloads == [tool : ToolSamples, params : ParamSamples]

\* Action.safeParse and, when it fails, UnknownAction.safeParse.
validate ==
  /\ vPc = "input"
  /\ validated' = Validate(raw)
  /\ vPc' = "validated"
  /\ UNCHANGED <<raw, encoded, decoded, urlCall, auxVars>>
  /\ UNCHANGED <<transportVars, sinkOk, loopVars, openEvents, sideCall, metaWait, toolVars>>

\* The validated value is written as the body of an outbound frame.
stringify ==
  /\ vPc = "validated"
  /\ validated.kind # "invalid"
  /\ encoded' = JsonStringify(validated.data)
  /\ vPc' = "encoded"
  /\ UNCHANGED <<raw, validated, decoded, urlCall, auxVars>>
  /\ UNCHANGED <<transportVars, sinkOk, loopVars, openEvents, sideCall, metaWait, toolVars>>

\* The text is read back.
jsonParse ==
  /\ vPc = "encoded"
  /\ decoded' = JsonParse(encoded)
  /\ vPc' = "decoded"
  /\ UNCHANGED <<raw, validated, encoded, urlCall, auxVars>>
  /\ UNCHANGED <<transportVars, sinkOk, loopVars, openEvents, sideCall, metaWait, toolVars>>

\* ---------------------------------------------------------- getMcpUrl()
\* A string is the sequence of the pieces it is written from.
BaseUrlSamples == { <<"https://api.hdr.is">>, <<"https://api.hdr.is", "/compute/">>, <<"http://localhost:8080">> }
MachineIdSamples == { NullStr, Str("123abc"), Str("vm-7") }

\* getMcpUrl(baseURL, machineId): `${baseURL}${machineId}/mcp`
getMcpUrl(baseURL, machineId) ==
  IF machineId.null
    THEN [threw |-> TRUE, value |-> <<"Unable to get MCP Url: machineId is null.">>]
    ELSE [threw |-> FALSE, value |-> baseURL \o machineId.text \o <<"/mcp">>]

\* A caller asks for the MCP URL.
getMcpUrlCall ==
  /\ urlCall.pc = "input"
  /\ urlCall' = [urlCall EXCEPT !.pc = "returned",
                                !.threw = getMcpUrl(urlCall.baseURL, urlCall.machineId).threw,
                                !.value = getMcpUrl(urlCall.baseURL, urlCall.machineId).value]
  /\ UNCHANGED <<vPc, raw, validated, encoded, decoded, auxVars>>
  /\ UNCHANGED <<transportVars, sinkOk, loopVars, openEvents, sideCall, metaWait, toolVars>>

\* One payload and one pair of URL arguments, before anything is applied.
PureInit ==
  /\ InitSession
  /\ InitAux
  /\ vPc = "input"
  /\ raw \in Payloads
  /\ validated = [kind |-> "none", data |-> NoPayload]
  /\ encoded = NoText
  /\ decoded = NoPayload
  /\ urlCall \in [pc : {"input"}, baseURL : BaseUrlSamples, machineId : MachineIdSamples, threw : {FALSE}, value : {<<>>}]

PureNext ==
  \/ validate
  \/ stringify
  \/ jsonParse
  \/ getMcpUrlCall

PureSpec == PureInit /\ [][PureNext]_vars

\* ------------------------------------------------------ makeToolResult()
\* The ToolResult values and call identifiers makeToolResult() is tried on.
ToolResultInputs ==
  [output : {NullStr, Str(""), Str("hello world")},
   error : {NullStr, Str(""), Str("command not found")},
   base64_image : {NullStr, Str(""), Str("iVBORw0")},
   system : {NullStr}]
IdSamples == {<<1, 1>>, <<2, 1>>}

\* A caller converts a ToolResult.
makeToolResultCall ==
  /\ toolCall.pc = "input"
  /\ toolCall' = [toolCall EXCEPT !.pc = "returned", !.block = makeToolResult(toolCall.result, toolCall.id)]
  /\ UNCHANGED <<vPc, raw, validated, encoded, decoded, urlCall, logCall, toolSets, optionsTools>>
  /\ UNCHANGED <<transportVars, sinkOk, loopVars, openEvents, sideCall, metaWait, toolVars>>

\* ------------------------------ execute() and screenshot(), HTTP variant
\* The messages api.useComputer() resolves with: a text response, a
\* screenshot, both, neither.
HttpMessages ==
  [tool_result : [output : {NullStr, Str("hello world")},
                  error : {NullStr},
                  base64_image : {NullStr, Str("iVBORw0")},
                  system : {NullStr}],
   request_ts : {1, 2}]

\* logScreenshot(message): the file written for a screenshot, or null.
logScreenshot(message) ==
  IF Truthy(message.tool_result.base64_image)
    THEN <<"screenshot_", message.request_ts, ".png">>
    ELSE <<>>

\* logReceive(message).  messageDict = {...message} copies the top level
\* only: messageDict.tool_result is the tool_result object of message, so
\* the assignment of null to its base64_image is made on the message too.
logReceive(message) ==
  [files |-> IF logScreenshot(message) = <<>> THEN {} ELSE {logScreenshot(message)},
   record |-> [tool_result |-> [message.tool_result EXCEPT !.base64_image = NullStr],
               request_ts |-> message.request_ts,
               screenshot_file |-> logScreenshot(message)],
   message |-> [message EXCEPT !.tool_result.base64_image = NullStr]]

\* execute(action) up to its await: logSend(action), api.useComputer(action).
\* screenshot() is execute() of the screenshot action.
httpExecute(op) ==
  /\ logCall.pc = "idle"
  /\ logCall' = [logCall EXCEPT !.pc = "awaitApi", !.op = op, !.log = Append(@, [dir |-> "send", op |-> op])]
  /\ UNCHANGED <<vPc, raw, validated, encoded, decoded, urlCall, toolCall, toolSets, optionsTools>>
  /\ UNCHANGED <<transportVars, sinkOk, loopVars, openEvents, sideCall, metaWait, toolVars>>

\* api.useComputer() resolves: logReceive(message), return message; then
\* screenshot() throws 'No screenshot data received' when the message it
\* got back has no base64_image, and returns the image otherwise.
apiUseComputerResolves(received) ==
  /\ logCall.pc = "awaitApi"
  /\ LET done == logReceive(received) IN
       logCall' = [logCall EXCEPT
                     !.pc = "returned",
                     !.received = received,
                     !.message = done.message,
                     !.log = Append(@, [dir |-> "recv", record |-> done.record]),
                     !.files = @ \cup done.files,
                     !.outcome = IF logCall.op = "screenshot"
                                   THEN (IF Truthy(done.message.tool_result.base64_image) THEN "image" ELSE "threw")
                                   ELSE "message"]
  /\ UNCHANGED <<vPc, raw, validated, encoded, decoded, urlCall, toolCall, toolSets, optionsTools>>
  /\ UNCHANGED <<transportVars, sinkOk, loopVars, openEvents, sideCall, metaWait, toolVars>>

\* api.useComputer() rejects: execute() rejects, nothing is logged.
apiUseComputerRejects ==
  /\ logCall.pc = "awaitApi"
  /\ logCall' = [logCall EXCEPT !.pc = "returned", !.outcome = "rejected"]
  /\ UNCHANGED <<vPc, raw, validated, encoded, decoded, urlCall, toolCall, toolSets, optionsTools>>
  /\ UNCHANGED <<transportVars, sinkOk, loopVars, openEvents, sideCall, metaWait, toolVars>>

\* One ToolResult to convert and one HTTP session.
UtilInit ==
  /\ InitSession
  /\ InitPure
  /\ toolCall \in [pc : {"input"}, result : ToolResultInputs, id : IdSamples, block : {NoBlock}]
  /\ logCall = [pc |-> "idle", op |-> "none", received |-> NoHttpMessage, message |-> NoHttpMessage, log |-> <<>>, files |-> {}, outcome |-> "none"]
  /\ toolSets = [o \in {0} \cup Instances |-> IF o = 0 THEN {"bash", "computer"} ELSE {}]
  /\ optionsTools = [i \in Instances |-> -1]

UtilNext ==
  \/ makeToolResultCall
  \/ \E op \in {"execute", "screenshot"} : httpExecute(op)
  \/ \E received \in HttpMessages : apiUseComputerResolves(received)
  \/ apiUseComputerRejects

UtilSpec == UtilInit /\ [][UtilNext]_vars

\* --------------------------------------- options.tools of two instances
\* Tools a caller registers.
ToolsToRegister == {"update", "zoom", "notify"}

\* new Computer() or new Computer({tools: new Set([bashTool, computerTool])}):
\* this.options = {...defaultOptions, ...options} takes the Set object of
\* the caller when there is one, and defaultOptions.tools itself otherwise.
Computer(i, own) ==
  /\ optionsTools[i] = -1
  /\ optionsTools' = [optionsTools EXCEPT ![i] = IF own THEN i ELSE 0]
  /\ toolSets' = IF own THEN [toolSets EXCEPT ![i] = {"bash", "computer"}] ELSE toolSets
  /\ UNCHANGED <<vPc, raw, validated, encoded, decoded, urlCall, toolCall, logCall>>
  /\ UNCHANGED <<transportVars, sinkOk, loopVars, openEvents, sideCall, metaWait, toolVars>>

\* registerTool(tools) on instance i: this.options.tools.add(tool) for each.
registerTool(i, added) ==
  /\ optionsTools[i] # -1
  /\ ~(added \subseteq toolSets[optionsTools[i]])
  /\ toolSets' = [toolSets EXCEPT ![optionsTools[i]] = @ \cup added]
  /\ UNCHANGED <<vPc, raw, validated, encoded, decoded, urlCall, toolCall, logCall, optionsTools>>
  /\ UNCHANGED <<transportVars, sinkOk, loopVars, openEvents, sideCall, metaWait, toolVars>>

\* listComputerUseTools() of instance i.
listComputerUseToolsOf(i) == toolSets[optionsTools[i]]

ShareNext ==
  \/ \E i \in Instances, own \in BOOLEAN : Computer(i, own)
  \/ \E i \in Instances, added \in (SUBSET ToolsToRegister) \ {{}} : registerTool(i, added)

ShareSpec == Init /\ [][ShareNext]_vars

\* ===================================================================
\* Claims
\* ===================================================================
\* Frames delivered so far on socket s, in order.
DeliveredOn(s) == SelectSeq(delivered, LAMBDA r : r.sock = s)

\* The frame is a welcome frame: tool_result.system is a string holding
\* the serialized machine metadata.
IsWelcome(f) == f.system.t = "string" /\ f.system.isMeta

\* A frame is delivered in this step.
FrameStep == Len(delivered') = Len(delivered) + 1

\* The 'error' event of socket s is emitted in this step.
ErrorStep(s) ==
  \/ readyState[s] = "OPEN" /\ readyState'[s] = "CLOSING" /\ ws' = ws
  \/ wsP[s] = "pending" /\ wsP'[s] = "rejected"

\* Call c has sent its action on socket s and is waiting for the response.
PendingOn(c, s) == calls[c].pc = "pending" /\ calls[c].sent = "sent" /\ calls[c].sentOn = s

\* C1: if the channel closes while an execute() call is pending (action
\* sent, no frame yet), the call's promise is eventually rejected.
C1_ClosePendingLeadsToReject ==
  \A c \in Calls : \A s \in Sockets :
    (PendingOn(c, s) /\ readyState[s] = "CLOSED") ~> (calls[c].pc = "rejected")

\* C2: a channel-level error reaches the onError callback and rejects
\* every execute() call pending on that channel at that moment.
C2_ErrorEmittedAndPendingRejected ==
  [][\A s \in Sockets : ErrorStep(s) =>
       /\ errorEvents' = errorEvents + 1
       /\ \A c \in Calls : PendingOn(c, s) => calls'[c].pc = "rejected"]_vars

\* C3 (as stated): at every moment at most one response listener of
\* execute() is registered, whatever the sequence of execute() calls.
C3_AtMostOnePendingExchange == Len(listeners) <= 1

\* C3 (amended): at most one response listener is registered as long as
\* the caller starts an execute() only when no earlier one is unsettled.
C3_AtMostOnePendingWhenSerialized == serialized => Len(listeners) <= 1

\* C3 witness: a serialized caller's second execute() is pending after
\* its first one was resolved.
C3_Witness ==
  /\ serialized
  /\ calls[1].pc = "resolved"
  /\ calls[2].pc = "pending" /\ calls[2].sent = "sent"
  /\ listeners = <<2>>

\* The frame delivered in this step.
LastFrame == delivered'[Len(delivered')].frame

\* C4: the next inbound frame after the action was sent resolves the call
\* with that frame's content, and whatever the frame is the listener is
\* removed by it, so that no later frame reaches the call.
C4_NextFrameResolvesAndUnregisters ==
  [][FrameStep =>
       \A c \in Calls : (calls[c].pc = "pending" /\ calls[c].sent = "sent") =>
         /\ calls'[c].pc = "resolved"
         /\ calls'[c].result.output = LastFrame.output
         /\ \A i \in 1..Len(listeners') : listeners'[i] # c]_vars

\* C5: an execute() on a session that is not connected performs connect()
\* and neither sends nor drops its action before the channel it opened is
\* open; actions are written to open sockets only; the result of a call
\* is the parsed frame that resolved it, whichever way it was connected.
C5_ImplicitConnectThenSend ==
  \A c \in Calls :
    /\ calls[c].implicit => calls[c].conn \in Created
    /\ calls[c].pc = "awaitConnect" => (calls[c].sent = "no" /\ c \notin Listening)
    /\ (calls[c].implicit /\ calls[c].sent # "no") => wsP[calls[c].conn] = "resolved"
    /\ calls[c].sent = "sent" =>
         /\ wsP[calls[c].sentOn] = "resolved"
         /\ \E i \in 1..Len(wire) : wire[i] = [sock |-> calls[c].sentOn, call |-> c, action |-> BashAction]
    /\ calls[c].pc = "resolved" =>
         LET n == calls[c].result.response_ts IN
         /\ n \in 1..Len(delivered)
         /\ calls[c].result = ParseMessage(delivered[n].frame, n)

\* C5 witness: a call that connected implicitly and a later call issued on
\* the connected session were each resolved by a 'hello world' response.
C5_Witness ==
  \E c, d \in Calls :
    /\ serialized
    /\ calls[c].implicit /\ calls[c].pc = "resolved" /\ calls[c].result.output = "hello world"
    /\ ~calls[d].implicit /\ calls[d].pc = "resolved" /\ calls[d].result.output = "hello world"

\* C6: on one connection whose first frame is the welcome frame and whose
\* other frames carry no metadata, machineMetadata is assigned exactly
\* once, by the first frame, and the other frames leave it and sessionId
\* unchanged.
C6_PromotedExactlyOnce ==
  \A s \in Sockets :
    LET fs == DeliveredOn(s) IN
    (/\ Len(fs) = Len(delivered)
     /\ Len(fs) >= 2
     /\ IsWelcome(fs[1].frame)
     /\ \A i \in 2..Len(fs) : ~fs[i].frame.system.isMeta)
    => /\ metaWrites = 1
       /\ metaSet /\ machineMetadata = fs[1].frame.system.meta
       /\ sessionId = fs[1].frame.session_id

C8_WelcomeFramePromoted ==
  [][(FrameStep /\ IsWelcome(LastFrame)) =>
       /\ metaSet'
       /\ machineMetadata' = LastFrame.system.meta
       /\ sessionId' = LastFrame.session_id]_vars

\* C9: after a welcome frame with width W and height H is processed, the
\* advertised tool list holds no placeholder computer descriptor and
\* holds a computer descriptor of W x H.
C9_DescriptorReplaced ==
  [][(FrameStep /\ IsWelcome(LastFrame)) =>
       /\ computerTool \notin listComputerUseTools'
       /\ \E t \in listComputerUseTools' :
            t.name = "computer" /\ t.w = LastFrame.system.meta.w /\ t.h = LastFrame.system.meta.h]_vars

\* C10: a session has at most one channel at a time: connect(), called
\* directly or through execute(), creates no second channel while one is
\* open or being opened.
C10_AtMostOneChannel == Cardinality({s \in Sockets : readyState[s] \in {"CONNECTING", "OPEN"}}) <= 1

\* The promise connect() returned for socket s is settled as resolved in this step.
ConnectResolvesStep(s) == ConnectAll(s) # "resolved" /\ ConnectAll(s)' = "resolved"

\* C11 (as stated): connect() resolves only after the channel's open
\* signal, rejects when an error or a close occurs before open, and at
\* the moment it resolves the channel is open.
C11_ResolvesOnlyWhileOpen ==
  [][\A s \in Sockets :
       /\ ConnectResolvesStep(s) => (wsP'[s] = "resolved" /\ readyState'[s] = "OPEN")
       /\ (wsP[s] = "pending" /\ readyState'[s] = "CLOSED") => ConnectAll(s)' = "rejected"]_vars

\* C11 (amended): connect() resolves only after the channel's open signal
\* was given (the signal settles the channel's promise in the step that
\* opens the channel), and rejects when an error or a close occurs before
\* open; the channel may have closed again by the time connect() resolves.
C11_ResolvesOnlyAfterOpenSignal ==
  [][\A s \in Sockets :
       /\ ConnectResolvesStep(s) => (wsP'[s] = "resolved" /\ readyState'[s] \in {"OPEN", "CLOSING", "CLOSED"})
       /\ (wsP[s] # "resolved" /\ wsP'[s] = "resolved") => (readyState[s] = "CONNECTING" /\ readyState'[s] = "OPEN")
       /\ (wsP[s] = "pending" /\ readyState'[s] = "CLOSED") => ConnectAll(s)' = "rejected"
       /\ ConnectAll(s) = "rejected" => ConnectAll(s)' = "rejected"]_vars

\* C11 witness: one connect() has resolved after its channel opened and
\* another one was rejected because its channel failed before opening.
C11_Witness ==
  \E s, r \in Sockets :
    /\ ConnectAll(s) = "resolved" /\ readyState[s] = "OPEN"
    /\ wsP[r] = "rejected" /\ readyState[r] = "CLOSED" /\ ConnectAll(r) = "rejected"

\* The connection state of the session as the code holds it: this.ws and
\* the ready state of the socket it refers to.
ConnState ==
  IF ws = 0 THEN (IF Created = {} THEN "disconnected" ELSE "closed")
  ELSE IF readyState[ws] = "CONNECTING" THEN "connecting"
  ELSE IF readyState[ws] = "OPEN" THEN "connected"
  ELSE "closed"

ForwardTransitions ==
  {<<"disconnected", "connecting">>, <<"connecting", "connected">>, <<"connected", "closed">>,
   <<"disconnected", "closed">>, <<"connecting", "closed">>}

\* C12 (as stated): the connection state moves only along disconnected ->
\* connecting -> connected -> closed, or from any state to closed.
C12_OnlyForwardTransitions ==
  [][ConnState' # ConnState => <<ConnState, ConnState'>> \in ForwardTransitions]_vars

\* C12 (amended): the connection state moves only along disconnected ->
\* connecting -> connected -> closed, from any state to closed, and from
\* any state to connecting when connect() creates a new channel (directly
\* or through execute()); every connect() leaves the session connecting.
C12_ForwardOrReconnect ==
  [][/\ ConnState' # ConnState =>
          \/ <<ConnState, ConnState'>> \in ForwardTransitions
          \/ (Created' # Created /\ ConnState' = "connecting")
     /\ Created' # Created => ConnState' = "connecting"]_vars

\* C12 witness: the session is connected on a second channel after its
\* first channel was closed.
C12_Witness ==
  /\ Created = {1, 2}
  /\ readyState[1] = "CLOSED" /\ wsP[1] = "resolved"
  /\ ws = 2 /\ ConnState = "connected"

\* close() is called on a session that holds a socket in this step.
CloseStep == ws # 0 /\ ws' = 0

SendStep(c) == calls[c].pc = "awaitConnect" /\ calls'[c].pc = "pending"

\* C14: a send on a channel that is absent or not open fails: nothing is
\* written to the channel and nothing is forwarded to the Logging Sink;
\* a send on an open channel is written to it.
C14_SendNotConnectedFails ==
  [][\A c \in Calls : SendStep(c) =>
       IF ws = 0 \/ readyState[ws] # "OPEN"
         THEN calls'[c].sent = "dropped" /\ wire' = wire /\ sinkLog' = sinkLog
         ELSE calls'[c].sent = "sent" /\ wire' = Append(wire, [sock |-> ws, call |-> c, action |-> BashAction])]_vars

\* C14 witness: a send failed on a channel that is present but no longer
\* open; nothing was written and nothing was logged.
C14_Witness ==
  /\ \E c \in Calls : calls[c].pc = "pending" /\ calls[c].sent = "dropped"
  /\ ws # 0 /\ readyState[ws] \in {"CLOSING", "CLOSED"}
  /\ wire = <<>> /\ sinkLog = <<>>

\* C15: every action sent is forwarded to the Logging Sink exactly once,
\* by the handler that writes it, and every inbound frame is forwarded to
\* the Logging Sink exactly once, whether or not an execute() listener is
\* registered for it.
C15_EverythingLoggedOnce ==
  [][/\ \A c \in Calls : (SendStep(c) /\ calls'[c].sent = "sent") =>
          sinkLog' = Append(sinkLog, [dir |-> "send", call |-> c, msg |-> NoMessage])
     /\ FrameStep =>
          (/\ Len(sinkLog') = Len(sinkLog) + 1
           /\ sinkLog'[Len(sinkLog')].dir = "recv"
           /\ sinkLog'[Len(sinkLog')].msg.output = LastFrame.output)]_vars

\* C16: a failure of the Logging Sink blocks nothing: an action sent on
\* an open channel is written to it, and a well-formed inbound frame
\* resolves every execute() waiting for it.
C16_SinkNeverBlocks ==
  [][/\ \A c \in Calls : (SendStep(c) /\ isConnected) =>
          wire' = Append(wire, [sock |-> ws, call |-> c, action |-> BashAction])
     /\ (FrameStep /\ ParseOk(LastFrame)) =>
          \A c \in Listening : calls'[c].pc = "resolved"]_vars

\* The tool-call intents of an oracle turn, in order.
ToolCalls(items) == SelectSeq(items, LAMBDA x : x.type = "tool_use")

\* The positions of the conversation that hold an oracle turn.
OracleTurnsAt == {i \in 1..Len(messages) : messages[i].role = "assistant"}

\* C17: the loop ends after exactly the first oracle turn without tool
\* calls: such a turn is the last message of the conversation and the
\* loop is done (the oracle is not invoked again), every turn before it
\* held a tool call, and a turn with a tool call is followed by its
\* tool-result turn, never by the end of the loop.
C17_StopsAtFirstTurnWithoutToolCalls ==
  /\ \A i \in OracleTurnsAt :
       IF Len(ToolCalls(messages[i].content)) = 0
         THEN i = Len(messages) /\ loopPc = "done"
         ELSE i < Len(messages) /\ messages[i + 1].role = "user" /\ loopPc # "idle"
  /\ loopPc = "done" =>
       /\ messages[Len(messages)].role = "assistant"
       /\ Len(ToolCalls(messages[Len(messages)].content)) = 0

\* C17 witness: the loop is done after a turn with tool calls followed by
\* a turn of narrative text only.
C17_Witness ==
  /\ loopPc = "done"
  /\ Len(messages) = 4
  /\ Len(ToolCalls(messages[2].content)) = 2
  /\ Len(messages[4].content) = 1

\* The call identifiers of a sequence of intents, and those carried by a
\* sequence of result blocks.
IntentIds(items) == [k \in 1..Len(ToolCalls(items)) |-> ToolCalls(items)[k].id]
ResultIds(results) == [k \in 1..Len(results) |-> results[k].tool_use_id]

\* C18: every tool-result turn of the conversation follows an oracle turn
\* and holds one result block per tool-call intent of that turn, in the
\* same order, the i-th carrying the i-th intent's call identifier; text
\* items produce none.  The same holds of the results collected so far
\* while a turn is being processed.
C18_ResultsMatchIntents ==
  /\ \A i \in 2..Len(messages) : messages[i].role = "user" =>
       /\ messages[i - 1].role = "assistant"
       /\ ResultIds(messages[i].content) = IntentIds(messages[i - 1].content)
       /\ \A k \in 1..Len(messages[i].content) : messages[i].content[k].type = "tool_result"
  /\ loopPc = "processing" => ResultIds(toolResults) = IntentIds(SubSeq(content, 1, pos - 1))

\* C18 witness: an oracle turn of a text item and a tool call is followed
\* by a tool-result turn of one block carrying that call's identifier.
C18_Witness ==
  \E i \in OracleTurnsAt :
    /\ i < Len(messages)
    /\ Len(messages[i].content) = 2
    /\ messages[i].content[1].type = "text"
    /\ messages[i].content[2].type = "tool_use"
    /\ ResultIds(messages[i + 1].content) = <<messages[i].content[2].id>>

\* The tool call cannot be resolved: no fixed action, and no tool of the
\* side-channel registry.
Unresolvable(block) ==
  /\ block.type = "tool_use"
  /\ ~ActionSafeParse(PayloadOf(block))
  /\ block.name \notin RegistryTools

\* The result block is error-flagged and its text names the tool.
ErrorNaming(result, name) ==
  /\ result.is_error = "true"
  /\ \E k \in 1..Len(result.content) : \E j \in 1..Len(result.content[k].data) : result.content[k].data[j] = name

\* C19: a tool call that cannot be resolved never makes useComputer()
\* throw; its result is an error-flagged block that names the tool, at
\* the intent's place in the tool-result turn.
C19_UnresolvableToolFedBack ==
  /\ failure # "tool"
  /\ \A i \in OracleTurnsAt : \A k \in 1..Len(ToolCalls(messages[i].content)) :
       Unresolvable(ToolCalls(messages[i].content)[k]) =>
         /\ i < Len(messages)
         /\ ErrorNaming(messages[i + 1].content[k], ToolCalls(messages[i].content)[k].name)

\* Dispatches recorded for a call identifier.
DispatchesOf(id) == {k \in 1..Len(dispatched) : dispatched[k].id = id}

\* C20: every tool-call intent is dispatched to exactly one destination:
\* execute() when a fixed schema accepts the payload, else the side
\* channel when the permissive schema accepts it, else nowhere, with an
\* error result made up on the spot.  No intent is dispatched twice and a
\* payload a fixed schema accepts never goes to the side channel.
C20_DispatchOrder ==
  /\ \A k \in 1..Len(dispatched) :
       LET p == dispatched[k].payload
           fixed == BashActionSafeParse(p) \/ ComputerActionSafeParse(p) \/ EditActionSafeParse(p)
       IN /\ dispatched[k].dest \in {"execute", "mcp"}
          /\ dispatched[k].dest = "execute" <=> fixed
          /\ dispatched[k].dest = "mcp" => (p.tool \notin {Undef, ""} /\ p.params.kind = "record")
          /\ \A j \in 1..Len(dispatched) : dispatched[j].id = dispatched[k].id => j = k
  /\ \A i \in OracleTurnsAt : \A k \in 1..Len(ToolCalls(messages[i].content)) :
       LET b == ToolCalls(messages[i].content)[k]
           p == PayloadOf(b)
           fixed == BashActionSafeParse(p) \/ ComputerActionSafeParse(p) \/ EditActionSafeParse(p)
           extension == p.tool \notin {Undef, ""} /\ p.params.kind = "record"
       IN IF fixed \/ extension
            THEN Cardinality(DispatchesOf(b.id)) = 1
            ELSE /\ DispatchesOf(b.id) = {}
                 /\ i < Len(messages)
                 /\ messages[i + 1].content[k].is_error = "true"

\* C20 witness: one intent went to execute(), one to the side channel, and
\* one, whose input is no key-value mapping, went nowhere and got an error
\* result.
C20_Witness ==
  /\ \E k \in 1..Len(dispatched) : dispatched[k].dest = "execute"
  /\ \E k \in 1..Len(dispatched) : dispatched[k].dest = "mcp"
  /\ \E i \in OracleTurnsAt : \E k \in 1..Len(ToolCalls(messages[i].content)) :
       /\ ToolCalls(messages[i].content)[k].input.kind # "record"
       /\ i < Len(messages)
       /\ ErrorNaming(messages[i + 1].content[k], "fake-tool")

\* The tools of the fixed union.
FixedTools == {"bash", "computer", "str_replace_editor"}

\* C21: a payload that names a fixed tool (bash, computer,
\* str_replace_editor) and whose params the tool's schema rejects is never
\* dispatched to the side-channel registry: every call that went to the
\* side channel names a tool outside the fixed union.
C21_FixedToolTyposNotDispatched ==
  \A k \in 1..Len(dispatched) :
    dispatched[k].dest = "mcp" => dispatched[k].payload.tool \notin FixedTools

\* Payloads that are valid by the data model: a bash command, computer
\* sub-actions with their fields, editor commands with theirs; two of
\* them carry a key their schema does not name.
ValidPayloadSamples ==
  { [tool |-> "bash", params |-> [NoKeys EXCEPT !.command = "echo hello world"]],
    [tool |-> "bash", params |-> [NoKeys EXCEPT !.command = "ls -la", !.text = "extra"]],
    [tool |-> "computer", params |-> [NoKeys EXCEPT !.action = "screenshot"]],
    [tool |-> "computer", params |-> [NoKeys EXCEPT !.action = "cursor_position", !.path = "extra"]],
    [tool |-> "computer", params |-> [NoKeys EXCEPT !.action = "mouse_move", !.coordinate = "int2"]],
    [tool |-> "computer", params |-> [NoKeys EXCEPT !.action = "left_click_drag", !.coordinates = "int2"]],
    [tool |-> "computer", params |-> [NoKeys EXCEPT !.action = "type", !.text = "hello"]],
    [tool |-> "str_replace_editor", params |-> [NoKeys EXCEPT !.command = "view", !.path = "/tmp/f"]],
    [tool |-> "str_replace_editor", params |-> [NoKeys EXCEPT !.command = "create", !.path = "/tmp/f", !.file_text = "text"]],
    [tool |-> "str_replace_editor", params |-> [NoKeys EXCEPT !.command = "str_replace", !.path = "/tmp/f", !.old_str = "a", !.new_str = "b"]],
    [tool |-> "str_replace_editor", params |-> [NoKeys EXCEPT !.command = "insert", !.path = "/tmp/f", !.insert_line = "1", !.new_str = "b"]],
    [tool |-> "str_replace_editor", params |-> [NoKeys EXCEPT !.command = "undo_edit", !.path = "/tmp/f"]] }

C23_ExtensionFallThrough ==
  vPc # "input" =>
    /\ (raw.tool \notin FixedTools \cup {Undef, ""} /\ raw.params.kind = "record") =>
         (validated.kind = "unknown" /\ validated.data = raw)
    /\ raw.tool \in {Undef, ""} => validated.kind = "invalid"

\* C23 witness: a payload for a tool called fake-tool, with a mapping that
\* holds a key, went through the extension schema.
C23_Witness ==
  /\ vPc = "validated"
  /\ raw = [tool |-> "fake-tool", params |-> [NoKeys EXCEPT !.command = "echo hello world"]]
  /\ validated.kind = "unknown"

\* C24: a side-channel operation invoked on a session that never set up
\* its side channel (no MCP client was ever created) fails, and does so
\* without contacting the remote side.
C24_SideChannelFailsFast ==
  (sideCall.op # "none" /\ ~sideCall.client) => (sideCall.threw /\ ~sideCall.contacted)

\* A frame carrying machine metadata was delivered to the session.
WelcomeSeen == \E i \in 1..Len(delivered) : delivered[i].frame.system.isMeta

\* C25: a bounded wait for the metadata on a session that receives no
\* welcome frame ends by rejecting: with the timeout error and no other,
\* not before the bound has elapsed, never by resolving, and it does end.
C25_BoundedWaitTimesOut ==
  /\ [](metaWait.pc = "rejected" => (metaWait.error = "HandshakeTimeoutError" /\ metaWait.elapsed >= metaWait.timeout))
  /\ [](~WelcomeSeen => metaWait.pc # "resolved")
  /\ (metaWait.pc = "waiting" ~> (metaWait.pc = "rejected" \/ WelcomeSeen))

\* C25 witness: a wait of 10 ms on a connected session that got an
\* ordinary response and no welcome frame was rejected for the timeout.
C25_Witness ==
  /\ metaWait.pc = "rejected"
  /\ metaWait.timeout = 10
  /\ metaWait.error = "HandshakeTimeoutError"
  /\ Len(delivered) > 0
  /\ ~WelcomeSeen
  /\ isConnected

\* C26: every oracle request of the loop carries the tool set the
\* computer advertises at that moment.
C26_OracleGetsCurrentTools ==
  invoked.n > 0 => invoked.tools = invoked.advertised

\* C27: options.onOpen has been invoked once for every channel of the
\* session that has opened.
C27_OnOpenOncePerOpen ==
  openEvents = Cardinality({s \in Sockets : wsP[s] = "resolved"})

\* The mouse_move payload of the README quick start: the target is under
\* 'coordinates'.
ReadmeMouseMove == [tool |-> "computer", params |-> [NoKeys EXCEPT !.action = "mouse_move", !.coordinates = "int2"]]

C29_McpUrlUnderCompute ==
  urlCall.pc = "returned" =>
    IF urlCall.machineId.null
      THEN urlCall.threw /\ urlCall.value = <<"Unable to get MCP Url: machineId is null.">>
      ELSE ~urlCall.threw /\ urlCall.value = urlCall.baseURL \o <<"/compute/">> \o urlCall.machineId.text \o <<"/mcp">>


\* C30: in the useComputer variant that calls getMetadata(), whenever the
\* conversation ends with a turn of tool results, the oracle has been
\* invoked again with them: one request more than the turns it answered.
C30_ToolResultsGoBackToOracle ==
  (Len(messages) > 1 /\ messages[Len(messages)].role = "user") => invoked.n = AssistantTurns + 1


\* C31: when two execute() calls are pending at the same time, the next
\* inbound frame resolves both of them with that same frame and removes
\* both listeners, so that the frame after it resolves neither.
C31_OneFrameResolvesBothPending ==
  [][FrameStep =>
       \A c, d \in Calls : (c # d /\ calls[c].pc = "pending" /\ calls[d].pc = "pending") =>
         /\ calls'[c].pc = "resolved" /\ calls'[d].pc = "resolved"
         /\ calls'[c].result = ParseMessage(LastFrame, Len(delivered'))
         /\ calls'[d].result = calls'[c].result
         /\ c \notin {listeners'[i] : i \in 1..Len(listeners')}
         /\ d \notin {listeners'[i] : i \in 1..Len(listeners')}]_vars


\* Call identifiers whose result block the loop holds: in toolResults or
\* in a tool-result turn of the conversation.
ObtainedIds ==
  {toolResults[i].tool_use_id : i \in 1..Len(toolResults)}
    \cup UNION {{messages[j].content[i].tool_use_id : i \in 1..Len(messages[j].content)} :
                  j \in {k \in 2..Len(messages) : messages[k].role = "user"}}

\* Dispatches whose result has not been obtained.
Outstanding == {i \in 1..Len(dispatched) : dispatched[i].id \notin ObtainedIds}

\* C32: during the loop at most one tool dispatch is outstanding, and it
\* is the latest one (a call is dispatched only after the result of the
\* one before it was obtained); the oracle is invoked only when none is.
C32_OneDispatchAtATime ==
  /\ Cardinality(Outstanding) <= 1
  /\ Outstanding \subseteq {Len(dispatched)}
  /\ Outstanding # {} <=> loopPc \in {"awaitExecute", "awaitMcp"} \/ (loopPc = "failed" /\ failure # "oracle")
  /\ loopPc = "awaitOracle" => Outstanding = {}

\* C32 witness: the second tool call of a turn is outstanding, after the
\* result of the first one was obtained.
C32_Witness ==
  /\ loopPc \in {"awaitExecute", "awaitMcp"}
  /\ Len(dispatched) = 2
  /\ dispatched[1].id[1] = dispatched[2].id[1]
  /\ Len(toolResults) = 1 /\ toolResults[1].tool_use_id = dispatched[1].id
  /\ Outstanding = {2}


NonEmpty(v) == ~v.null /\ v.text \notin {<<>>, <<"">>}

\* C34: makeToolResult(result, id) returns a tool_result block with
\* tool_use_id = id; is_error is true exactly when result.error is a
\* non-empty string, and then the content is the error text alone;
\* otherwise the content is the output text (when not empty) followed by
\* the image block (when base64_image is not empty).
C34_MakeToolResultShape ==
  toolCall.pc = "returned" =>
    LET r == toolCall.result
        b == toolCall.block
        errorText == <<[type |-> "text", data |-> r.error.text]>>
        outputText == IF NonEmpty(r.output) THEN <<[type |-> "text", data |-> r.output.text]>> ELSE <<>>
        image == IF NonEmpty(r.base64_image) THEN <<[type |-> "image", data |-> r.base64_image.text]>> ELSE <<>>
    IN /\ b.type = "tool_result"
       /\ b.tool_use_id = toolCall.id
       /\ b.is_error = (IF NonEmpty(r.error) THEN "true" ELSE "false")
       /\ b.content = (IF NonEmpty(r.error) THEN errorText ELSE outputText \o image)

\* C34 witness: a result with an error, an output and an image gave an
\* error-flagged block of the error text alone.
C34_Witness ==
  /\ toolCall.pc = "returned"
  /\ NonEmpty(toolCall.result.error) /\ NonEmpty(toolCall.result.output) /\ NonEmpty(toolCall.result.base64_image)
  /\ toolCall.block.is_error = "true"
  /\ Len(toolCall.block.content) = 1

\* C36: logReceive leaves the message it is given as it was: the message
\* execute() returns after logging still carries the base64_image of the
\* received response (so screenshot() returns it), and only the log
\* record has it replaced by a file reference.
C36_LogReceiveLeavesMessage ==
  (logCall.pc = "returned" /\ logCall.outcome # "rejected") =>
    /\ logCall.message = logCall.received
    /\ (logCall.op = "screenshot" /\ NonEmpty(logCall.received.tool_result.base64_image)) => logCall.outcome = "image"
    /\ LET rec == logCall.log[Len(logCall.log)].record IN
         /\ rec.tool_result.base64_image = NullStr
         /\ NonEmpty(logCall.received.tool_result.base64_image) => rec.screenshot_file \in logCall.files


\* C35: the welcome frame is never the result of an execute(): a call
\* issued on a connected session before the welcome frame arrived is
\* resolved with the response to its own action, not with that frame.
C35_WelcomeNeverAnExecuteResult ==
  \A c \in Calls : calls[c].pc = "resolved" => ~IsWelcome(calls[c].result)


\* C37: after every welcome frame of a session, the first one or one of
\* a later connection, the tool set holds exactly one descriptor named
\* 'computer', and it carries the dimensions of that latest handshake.
C37_OneComputerDescriptorOfLatestHandshake ==
  [][(FrameStep /\ IsWelcome(LastFrame)) =>
       LET named == {t \in listComputerUseTools' : t.name = "computer"} IN
       /\ Cardinality(named) = 1
       /\ \A t \in named : t.w = LastFrame.system.meta.w /\ t.h = LastFrame.system.meta.h]_vars


\* C38: the tool set of a session is private to it: a step that changes
\* the tool list of one Computer instance (a registerTool() or a handshake
\* promotion on it) leaves the tool list of every other instance as it
\* was, instances created with the default options included.
C38_ToolSetPrivate ==
  [][\A i, j \in Instances :
       (/\ i # j
        /\ optionsTools[i] # -1 /\ optionsTools[j] # -1
        /\ optionsTools' = optionsTools
        /\ listComputerUseToolsOf(i)' # listComputerUseToolsOf(i))
       => listComputerUseToolsOf(j)' = listComputerUseToolsOf(j)]_vars


\* C39: once the connect() that created the session's socket has
\* rejected, for whatever reason, no channel is left open: isConnected()
\* is false.
C39_RejectedConnectLeavesNoChannel ==
  \A s \in Sockets : (ws = s /\ ConnectAll(s) = "rejected") => ~isConnected

\* C40: when sendWS() fails inside execute() because the channel is not
\* open at that instant, the call is rejected and its response listener
\* is removed: it neither hangs nor takes a later frame.
C40_FailedSendRejectsCall ==
  [][\A c \in Calls : (SendStep(c) /\ sendWSThrows) =>
       /\ calls'[c].pc = "rejected"
       /\ c \notin {listeners'[i] : i \in 1..Len(listeners')}]_vars

====
